---------------------------- MODULE Spec2Model ----------------------------
(***************************************************************************)
(* cargo-show-asm: the assembly statement parser (asm/statements.rs), the   *)
(* item finder (asm.rs find_items), the context resolver (lib.rs            *)
(* get_context_for, asm.rs Asm::extra_context), the range renderer          *)
(* (asm.rs dump_range), the choice of the item (lib.rs get_dump_range,      *)
(* suggest_name, dump_function), the demangler (demangle.rs) and the        *)
(* search for source files (asm.rs locate_sources).                         *)
(*                                                                         *)
(* Text is a sequence of atoms.  An atom is a piece of text that every      *)
(* character predicate of the program treats uniformly ("foo" is a run of   *)
(* alphanumerics, "\t" a tab, ".L1" a whole local-label identifier), so a   *)
(* tag is a sequence of atoms and take_while is a prefix over a set of      *)
(* atoms.  "\r" is not in the alphabet.                                     *)
(***************************************************************************)
EXTENDS Integers, Sequences, FiniteSets, TLC

VARIABLES
    input, rest, stmts, pstate,                    \* parse_file
    lines, six, sec_start, item, names, res, opened, ipc,   \* find_items
    fmt, self_range, pending, processed, out,      \* get_context_for
    cpend, seen, xres, cpc,                        \* Asm::extra_context
    files, prev_loc, used, empty_line, dix, output, dpc,    \* dump_range
    goal, picked, gpc,                             \* get_dump_range
    dtext, shown, mpc,                             \* demangle
    lpath, lfs, located, lpc                       \* locate_sources

parseVars == <<input, rest, stmts, pstate>>
itemVars  == <<lines, six, sec_start, item, names, res, opened, ipc>>
ctxVars   == <<fmt, self_range, pending, processed, out, cpend, seen, xres, cpc>>
dumpVars  == <<files, prev_loc, used, empty_line, dix, output, dpc>>
pickVars  == <<goal, picked, gpc>>
demVars   == <<dtext, shown, mpc>>
locVars   == <<lpath, lfs, located, lpc>>
vars      == <<input, rest, stmts, pstate,
               lines, six, sec_start, item, names, res, opened, ipc,
               fmt, self_range, pending, processed, out, cpend, seen, xres, cpc,
               files, prev_loc, used, empty_line, dix, output, dpc,
               goal, picked, gpc, dtext, shown, mpc,
               lpath, lfs, located, lpc>>

\* what parse_file, find_items and extra_context leave alone
notParse == <<itemVars, ctxVars, dumpVars, pickVars, demVars, locVars>>
notItems == <<parseVars, ctxVars, dumpVars, pickVars, demVars, locVars>>
notCtx   == <<parseVars, itemVars, dumpVars, pickVars, demVars, locVars>>
notDump  == <<parseVars, itemVars, ctxVars, pickVars, demVars, locVars>>

-----------------------------------------------------------------------------
(* Bounds of the model *)

\* number of lines of an input text given to parse_file
MaxLines == 2

-----------------------------------------------------------------------------
(* Generic helpers on atom sequences *)

Take(s, n) == SubSeq(s, 1, n)

Drop(s, n) == SubSeq(s, n + 1, Len(s))

MinOf(S) == CHOOSE x \in S : \A y \in S : x <= y

MaxOf(S) == CHOOSE x \in S : \A y \in S : y <= x

\* tag(t): the input starts with the atoms of t
HasTag(s, t) == Len(s) >= Len(t) /\ Take(s, Len(t)) = t

\* take_while(c in S): the length of the longest prefix of s made of atoms of S
PrefixLen(S, s) ==
    LET bad == {i \in 1..Len(s) : s[i] \notin S}
    IN  IF bad = {} THEN Len(s) ELSE MinOf(bad) - 1

RECURSIVE Concat(_)
Concat(ss) == IF ss = <<>> THEN <<>> ELSE Head(ss) \o Concat(Tail(ss))

RECURSIVE SeqsUpTo(_, _)
\* all sequences over S of length 0..n
SeqsUpTo(S, n) ==
    IF n = 0 THEN {<<>>}
    ELSE LET shorter == SeqsUpTo(S, n - 1)
         IN  shorter \cup {Append(s, x) : s \in shorter, x \in S}

-----------------------------------------------------------------------------
(* Character classes, as sets of atoms *)

NL == "\n"

\* nom space0 / space1: spaces and tabs
Blank == {" ", "\t"}

\* regex \s
White == {" ", "\t", "\n"}

Digits == {"0", "1", "5"}

\* runs of letters, digits and underscores that start with a letter or digit
Words == {"foo", "mov", "file", "loc", "globl", "al", "set", "section",
          "type", "function", "byte", "text", "subsections_via_symbols",
          "cfi_endproc", "main", "cv_file", "cv_loc", "Ltmp1", "LBB0_1", "GCC_except_table0",
          "Lfunc_end0"} \cup Digits

\* identifiers with a leading dot or underscore, kept whole
DotIds == {".L1", ".L2", ".Lfunc_end0"}

UnderIds == {"_ZN3foo17h1E", "_ZN3foo17h2E", "_ZN3bar17h3E", "_ZN3baz17h4E",
             "_ZN4foo217h5E", "__ZN3foo17h1E", "_main", "_notrust"}

\* a complete double-quoted string, escapes included
Quoted == {"\"f.rs\""}

\* a double-quoted run of hexadecimal digits (.cv_file checksum)
QuotedHex == {"\"15\""}

Punct == {".", ":", ",", "#", "@", "+", "[", "]"}

Atoms == Words \cup DotIds \cup UnderIds \cup Quoted \cup QuotedHex
             \cup Punct \cup White

\* good_for_label: '.', '$', '_' and ASCII alphanumerics
good_for_label == Words \cup DotIds \cup UnderIds \cup {"."}

\* Instruction::parse_regular: alphanumerics, '.' and '_'
OpChars == Words \cup DotIds \cup UnderIds \cup {"."}

NotNL == Atoms \ {NL}

-----------------------------------------------------------------------------
(* Statement values (asm/statements.rs Statement, Directive):               *)
(* a record [t, a, b]; t names the variant, a and b its payload.            *)

None == <<"None">>

Stmt(t, a, b) == [t |-> t, a |-> a, b |-> b]

DirectiveTypes == {"File", "Loc", "Global", "Generic", "SymIsFun", "SetValue",
                   "SubsectionsViaSym", "SectionStart", "Data"}

IsDirective(s) == s.t \in DirectiveTypes

-----------------------------------------------------------------------------
(* demangle.rs: the three label patterns and label_kind *)

\* regex class [a-zA-Z0-9_$\.]
LabelChars == Words \cup DotIds \cup UnderIds \cup {"."}

\* atoms whose last character is a word character (regex \w)
WordEnd == Words \cup DotIds \cup UnderIds

\* atoms whose first character is a word character
WordStart == Words \cup UnderIds

\* atoms of the shape \.L[a-zA-Z0-9_$\.]+
DotL == {".L1", ".L2", ".Lfunc_end0"}

\* atoms of the shape LBB[0-9_]+
LBB == {"LBB0_1"}

\* atoms of the shape Ltmp[0-9]+
TempIds == {"Ltmp1"}

\* LOCAL_LABELS_REGEX matches with its label at atom i: the label follows the
\* start of the text or one character outside [\w\d$.]
LocalAt(text, i) ==
    /\ text[i] \in DotL \cup LBB
    /\ (i = 1 \/ text[i - 1] \notin LabelChars)

\* index of the last atom of the local-label match whose label is at atom i
LocalEnd(text, i) ==
    IF text[i] \in DotL
    THEN i + PrefixLen(LabelChars, Drop(text, i))
    ELSE i + PrefixLen(Digits, Drop(text, i))

\* regex::Match of LOCAL_LABELS_REGEX with its label at atom i, as text: the
\* whole match, which includes the character before the label when it is
\* not at the start of the text (the group around the label is not used)
LocalMatch(text, i) ==
    SubSeq(text, IF i = 1 THEN 1 ELSE i - 1, LocalEnd(text, i))

\* the position of the k-th match of LOCAL_LABELS_REGEX in the text
LocalPos(text, k) ==
    CHOOSE i \in 1..Len(text) :
        /\ LocalAt(text, i)
        /\ Cardinality({j \in 1..(i - 1) : LocalAt(text, j)}) = k - 1

\* local_labels: the matches of LOCAL_LABELS.find_iter(input), in order
local_labels(text) ==
    [k \in 1..Cardinality({j \in 1..Len(text) : LocalAt(text, j)}) |->
        LocalMatch(text, LocalPos(text, k))]

\* GLOBAL_LABELS_REGEX \b_?(_[a-zA-Z0-9_$\.]+) matches at atom i
GlobalAt(text, i) ==
    /\ text[i] \in UnderIds
    /\ (i = 1 \/ text[i - 1] \notin WordEnd)

GlobalMatch(text, i) ==
    SubSeq(text, i, i + PrefixLen(LabelChars, Drop(text, i)))

\* TEMP_LABELS_REGEX \b(Ltmp[0-9]+)\b matches at atom i
TempAt(text, i) ==
    /\ text[i] \in TempIds
    /\ (i = 1 \/ text[i - 1] \notin WordEnd)
    /\ LET e == i + PrefixLen(Digits, Drop(text, i))
       IN  e = Len(text) \/ text[e + 1] \notin WordStart

Local == "Local"

Global == "Global"

Temp == "Temp"

Unknown == "Unknown"

\* a classifier that tries the global pattern first
GlobalFirstKind(id) ==
    IF \E i \in 1..Len(id) : GlobalAt(id, i) THEN Global
    ELSE IF \E i \in 1..Len(id) : LocalAt(id, i) THEN Local
    ELSE IF \E i \in 1..Len(id) : TempAt(id, i) THEN Temp
    ELSE Unknown

\* label_kind: the pattern of lowest index in LABEL_KINDS that matches
\* anywhere in the identifier
label_kind(id) ==
    IF \E i \in 1..Len(id) : LocalAt(id, i) THEN Local
    ELSE IF \E i \in 1..Len(id) : GlobalAt(id, i) THEN Global
    ELSE IF \E i \in 1..Len(id) : TempAt(id, i) THEN Temp
    ELSE Unknown

\* global_reference: GLOBAL_LABELS.find(input), the first match only
global_reference(text) ==
    LET at == {i \in 1..Len(text) : GlobalAt(text, i)}
    IN  IF at = {} THEN None ELSE GlobalMatch(text, MinOf(at))

-----------------------------------------------------------------------------
(* asm/statements.rs: the statement grammar.  A parser result is            *)
(* [ok, rest, val]: nom's Ok((rest, val)) or Err(Error).                    *)

NoVal == Stmt("None", None, None)

Fail == [ok |-> FALSE, rest |-> <<>>, val |-> NoVal]

Ok(r, v) == [ok |-> TRUE, rest |-> r, val |-> v]

\* complete::u64: one or more digits
U64(s) ==
    LET n == PrefixLen(Digits, s)
    IN  IF n = 0 THEN Fail ELSE Ok(Drop(s, n), Take(s, n))

\* space1
Space1(s) ==
    LET n == PrefixLen(Blank, s)
    IN  IF n = 0 THEN Fail ELSE Ok(Drop(s, n), Take(s, n))

\* parse_quoted_string: a double-quoted string with its escapes
parse_quoted_string(s) ==
    IF s # <<>> /\ s[1] \in Quoted THEN Ok(Tail(s), <<s[1]>>) ELSE Fail

\* not_line_ending: everything up to the end of the line, possibly nothing
NotLineEnding(s) ==
    LET n == PrefixLen(NotNL, s) IN Ok(Drop(s, n), Take(s, n))

\* take_while1(|c| c != '\n')
RestOfLine1(s) ==
    LET n == PrefixLen(NotNL, s)
    IN  IF n = 0 THEN Fail ELSE Ok(Drop(s, n), Take(s, n))

\* str::trim
RECURSIVE Trim(_)
Trim(s) ==
    IF s = <<>> THEN s
    ELSE IF Head(s) \in White THEN Trim(Tail(s))
    ELSE IF s[Len(s)] \in White THEN Trim(Take(s, Len(s) - 1))
    ELSE s

\* Label::parse
Label_parse(in) ==
    LET n     == PrefixLen(good_for_label, in)
        id    == Take(in, n)
        after == Drop(in, n)
        a1    == Drop(after, 1)
        sp    == PrefixLen({" "}, a1)
        a2    == Drop(a1, sp)
        a3    == Drop(a2, 3)
        m     == PrefixLen(NotNL, a3)
        lbl   == Stmt("Label", id, label_kind(id))
    IN  IF n = 0 \/ ~HasTag(after, <<":">>) THEN Fail
        ELSE IF sp >= 1 /\ HasTag(a2, <<"#", " ", "@">>) /\ m >= 1
        THEN Ok(Drop(a3, m), lbl)          \* comment
        ELSE Ok(a1, lbl)                   \* no_comment

\* opt(preceded(space1, parse_quoted_string))
OptSpaceQuoted(s) ==
    LET sp == Space1(s)
        q  == parse_quoted_string(sp.rest)
    IN  IF sp.ok /\ q.ok THEN Ok(q.rest, q.val) ELSE Ok(s, None)

\* opt(preceded(space1, complete::hex_digit1)); opt(preceded(space1, u64))
OptSpaceDigits(s) ==
    LET sp == Space1(s)
        d  == U64(sp.rest)
    IN  IF sp.ok /\ d.ok THEN Ok(d.rest, d.val) ELSE Ok(s, None)

\* opt(preceded(space1, delimited(tag("\""), hex_digit1, tag("\""))))
OptSpaceQuotedHex(s) ==
    LET sp == Space1(s)
    IN  IF sp.ok /\ sp.rest # <<>> /\ sp.rest[1] \in QuotedHex
        THEN Ok(Tail(sp.rest), <<sp.rest[1]>>) ELSE Ok(s, None)

\* the tuple after the tag of either form of File::parse
FileFields(s, cv) ==
    LET no == U64(s)
        sp == Space1(no.rest)
        p  == parse_quoted_string(sp.rest)
        o1 == IF cv THEN OptSpaceQuotedHex(p.rest) ELSE OptSpaceQuoted(p.rest)
        o2 == OptSpaceDigits(o1.rest)
        \* md5: the checksum only when checksumkind == Some(1)
        md == IF cv THEN (IF o2.val = <<"1">> THEN o1.val ELSE None) ELSE o2.val
        nm == IF cv THEN None ELSE o1.val
    IN  IF no.ok /\ sp.ok /\ p.ok
        THEN Ok(o2.rest, Stmt("File", no.val, <<p.val, nm, md>>))
        ELSE Fail

\* File::parse
File_parse(in) ==
    IF HasTag(in, <<"\t", ".", "file", "\t">>) /\ FileFields(Drop(in, 4), FALSE).ok
    THEN FileFields(Drop(in, 4), FALSE)
    ELSE IF HasTag(in, <<"\t", ".", "cv_file", "\t">>)
    THEN FileFields(Drop(in, 4), TRUE)
    ELSE Fail

\* Loc::parse
Loc_parse(in) ==
    LET fid  == U64(Drop(in, 4))
        fsp  == Space1(fid.rest)
        s0   == IF HasTag(in, <<"\t", ".", "loc", "\t">>) THEN Ok(Drop(in, 4), None)
                ELSE IF HasTag(in, <<"\t", ".", "cv_loc", "\t">>) /\ fid.ok /\ fsp.ok
                THEN Ok(fsp.rest, None)
                ELSE Fail
        file == U64(s0.rest)
        sp1  == Space1(file.rest)
        line == U64(sp1.rest)
        sp2  == Space1(line.rest)
        col  == U64(sp2.rest)
        ex   == IF HasTag(col.rest, <<" ">>) /\ RestOfLine1(Drop(col.rest, 1)).ok
                THEN RestOfLine1(Drop(col.rest, 1))
                ELSE Ok(col.rest, None)
    IN  IF s0.ok /\ file.ok /\ sp1.ok /\ line.ok /\ sp2.ok /\ col.ok
        THEN Ok(ex.rest, Stmt("Loc", <<file.val, line.val>>, <<col.val, ex.val>>))
        ELSE Fail


\* parse_statement: global
Global_parse(in) ==
    LET s0 == Drop(in, PrefixLen(Blank, in))                   \* space0
        \* alt((tag(".globl"), tag(".global"))): the first tag that matches
        s1 == IF HasTag(s0, <<".", "globl">>) THEN Ok(Drop(s0, 2), None)
              ELSE IF HasTag(s0, <<".", "globl", "al">>) THEN Ok(Drop(s0, 3), None)
              ELSE Fail
        sp == Space1(s1.rest)
        n  == PrefixLen(good_for_label \cup {"@"}, sp.rest)
    IN  IF s1.ok /\ sp.ok /\ n >= 1
        THEN Ok(Drop(sp.rest, n), Stmt("Global", Take(sp.rest, n), None))
        ELSE Fail

\* parse_statement: set
Set_parse(in) ==
    LET sp == Space1(Drop(in, 2))
        n  == PrefixLen(good_for_label, sp.rest)
        s1 == Drop(sp.rest, n)
        s2 == Drop(s1, 1)
        s3 == Drop(s2, PrefixLen(Blank, s2))                   \* space0
        v  == RestOfLine1(s3)
    IN  IF HasTag(in, <<".", "set">>) /\ sp.ok /\ n >= 1 /\ HasTag(s1, <<",">>) /\ v.ok
        THEN Ok(v.rest, Stmt("SetValue", Take(sp.rest, n), v.val))
        ELSE Fail

\* parse_statement: ssvs
Ssvs_parse(in) ==
    IF HasTag(in, <<".", "subsections_via_symbols">>)
    THEN Ok(Drop(in, 2), Stmt("SubsectionsViaSym", None, None))
    ELSE Fail

\* parse_statement: section
Section_parse(in) ==
    LET v == RestOfLine1(Drop(in, 3))
    IN  IF HasTag(in, <<"\t", ".", "section">>) /\ v.ok
        THEN Ok(v.rest, Stmt("SectionStart", Trim(v.val), None))
        ELSE Fail

\* parse_statement: typ
Typ_parse(in) ==
    LET sp == Space1(Drop(in, 3))
        n  == PrefixLen(good_for_label, sp.rest)
        s1 == Drop(sp.rest, n)
    IN  IF /\ HasTag(in, <<"\t", ".", "type">>) /\ sp.ok /\ n >= 1
           /\ HasTag(s1, <<",", "@", "function">>)
        THEN Ok(Drop(s1, 3), Stmt("SymIsFun", Take(sp.rest, n), None))
        ELSE Fail

\* the mnemonics of the DATA_DEC pattern that are in the alphabet
DataKeywords == {"byte"}

\* parse_data_dec: the regex ^\s*\.(mnemonic)\s+([^\n]+), unanchored at the
\* end, matched against the whole remaining input (\s also matches "\n")
parse_data_dec(in) ==
    LET s0 == Drop(in, PrefixLen(White, in))                   \* ^\s*
        s1 == Drop(s0, 2)
        w  == PrefixLen(White, s1)
        \* \s+ is greedy and gives characters back until [^\n]+ can match
        ks == {k \in 1..w : Len(s1) > k /\ s1[k + 1] # NL}
        s2 == Drop(s1, MaxOf(ks))
        m  == PrefixLen(NotNL, s2)
    IN  IF HasTag(s0, <<".">>) /\ Len(s0) >= 2 /\ s0[2] \in DataKeywords /\ ks # {}
        THEN Ok(Drop(s2, m), Stmt("Data", <<s0[2]>>, Take(s2, m)))
        ELSE Fail

\* parse_statement: generic
Generic_parse(in) ==
    LET v == RestOfLine1(Drop(in, 2))
    IN  IF HasTag(in, <<"\t", ".">>) /\ v.ok
        THEN Ok(v.rest, Stmt("Generic", v.val, None))
        ELSE Fail

\* nom alt: the result of the first parser that succeeds
RECURSIVE Alt(_)
Alt(rs) ==
    IF rs = <<>> THEN Fail
    ELSE IF Head(rs).ok THEN Head(rs)
    ELSE Alt(Tail(rs))

\* parse_statement: dir
Dir_parse(in) ==
    Alt(<<File_parse(in), Global_parse(in), Loc_parse(in), Set_parse(in),
          Ssvs_parse(in), Section_parse(in), Typ_parse(in), parse_data_dec(in),
          Generic_parse(in)>>)

\* Instruction::parse_regular
parse_regular(in) ==
    LET n    == PrefixLen(OpChars, in)
        s1   == Drop(in, n)
        sp   == Space1(s1)
        args == NotLineEnding(sp.rest)
    IN  IF n = 0 THEN Fail
        ELSE IF sp.ok THEN Ok(args.rest, Stmt("Instruction", Take(in, n), args.val))
        ELSE Ok(s1, Stmt("Instruction", Take(in, n), None))

\* Instruction::parse_sharp
parse_sharp(in) ==
    LET h == PrefixLen({"#"}, in)
        n == IF h > 2 THEN 2 ELSE h                            \* take_while_m_n(1, 2)
        r == NotLineEnding(Drop(in, n))
    IN  IF n = 0 THEN Fail
        ELSE Ok(r.rest, Stmt("Instruction", Take(in, n) \o r.val, None))

\* Instruction::parse
Instruction_parse(in) ==
    IF HasTag(in, <<"\t">>)
    THEN Alt(<<parse_regular(Tail(in)), parse_sharp(Tail(in))>>)
    ELSE Fail

\* parse_statement: nothing
Nothing_parse(in) ==
    IF NotLineEnding(in).val = <<>> THEN Ok(in, Stmt("Nothing", None, None)) ELSE Fail

\* parse_statement: dunno
Dunno_parse(in) ==
    LET v == RestOfLine1(in)
    IN  IF v.ok THEN Ok(v.rest, Stmt("Dunno", v.val, None)) ELSE Fail

\* nom terminated(p, newline): the result of p, when a newline follows it
Terminated(r) ==
    IF r.ok /\ HasTag(r.rest, <<NL>>) THEN Ok(Tail(r.rest), r.val) ELSE Fail

\* parse_statement: terminated(alt((label, dir, instr, nothing, dunno)), newline)
parse_statement(in) ==
    Terminated(Alt(<<Label_parse(in), Dir_parse(in), Instruction_parse(in),
                     Nothing_parse(in), Dunno_parse(in)>>))

-----------------------------------------------------------------------------
(* asm.rs parse_file: many0(parse_statement) over the whole text *)

\* the lines the input texts are made of, without their line terminator
LineShapes ==
    { <<>>,
      <<"foo", ":">>,
      <<"foo", ":", " ", "#", " ", "@", "foo">>,
      <<"foo", ":", " ", "mov">>,
      <<"\t", ".", "file", "\t", "1", " ", "\"f.rs\"">>,
      <<"\t", ".", "file", "\t", "1", " ", "\"f.rs\"", " ", "\"f.rs\"", " ", "1", "5">>,
      <<"\t", ".", "cv_file", "\t", "1", " ", "\"f.rs\"", " ", "\"15\"", " ", "1">>,
      <<"\t", ".", "globl", "\t", "foo">>,
      <<"\t", ".", "globl", "al", "\t", "foo">>,
      <<"\t", ".", "loc", "\t", "1", " ", "5", " ", "0">>,
      <<"\t", ".", "loc", "\t", "1", " ", "5", " ", "0", " ", "foo">>,
      <<"\t", ".", "cv_loc", "\t", "0", " ", "1", " ", "5", " ", "0">>,
      <<".", "set", " ", "foo", ",", " ", "main">>,
      <<".", "subsections_via_symbols">>,
      <<"\t", ".", "section", "\t", ".", "text">>,
      <<"\t", ".", "type", "\t", "foo", ",", "@", "function">>,
      <<"\t", ".", "type", "\t", "foo", ",", "@", "function", " ", "#", "foo">>,
      <<"\t", ".", "byte", "\t", "0">>,
      <<"\t", ".", "byte">>,
      <<"\t", ".", "cfi_endproc">>,
      <<"\t", "mov", " ", "foo", ",", " ", "foo">>,
      <<"\t", "mov", ",", "foo">>,
      <<"\t", "#", "foo">>,
      <<"foo", " ", "foo">> }

RECURSIVE JoinLines(_)
\* the text whose lines are ls, each terminated by "\n"
JoinLines(ls) ==
    IF ls = <<>> THEN <<>> ELSE Head(ls) \o <<NL>> \o JoinLines(Tail(ls))

ParseInputs == {JoinLines(ls) : ls \in SeqsUpTo(LineShapes, MaxLines)}

\* the number of lines of a newline-terminated text
NumLines(text) == Cardinality({i \in 1..Len(text) : text[i] = NL})

NoItem == [mangled_name |-> None, name |-> None, hashed |-> None,
           index |-> 0, len |-> 0, non_blank_len |-> 0]

ItemsIdle ==
    /\ lines = <<>> /\ six = 0 /\ sec_start = 0 /\ item = NoItem
    /\ names = <<>> /\ res = {} /\ opened = {} /\ ipc = "idle"

\* Format::default() for the options the model has
DefaultFormat ==
    [context |-> 0, include_constants |-> FALSE, simplify |-> FALSE,
     rust |-> FALSE, redundant_labels |-> "Strip", verbosity |-> 0,
     name_display |-> "Short"]

\* NameDisplay
NameDisplays == {"Full", "Short", "Mangled"}

CtxIdle ==
    /\ fmt = DefaultFormat /\ self_range = [start |-> 0, end |-> 0]
    /\ pending = <<>> /\ processed = {} /\ out = <<>>
    /\ cpend = <<>> /\ seen = {} /\ xres = <<>> /\ cpc = "idle"

\* Loc::default()
NoLoc == [file |-> 0, line |-> 0, column |-> 0, extra |-> <<"None">>]

NoFiles == [f \in {} |-> 0]

DumpIdle ==
    /\ files = NoFiles /\ prev_loc = NoLoc /\ used = {}
    /\ empty_line = FALSE /\ dix = 0 /\ output = <<>> /\ dpc = "idle"

\* locate_sources found nothing
NotFound == [found |-> FALSE, source |-> "None", path |-> <<>>]

LocateIdle == lpath = <<>> /\ lfs = {} /\ located = NotFound /\ lpc = "idle"

\* get_dump_range, the demangler and locate_sources are not running
PickIdle ==
    /\ goal = [t |-> "Everything"] /\ picked = [start |-> -1, end |-> -1] /\ gpc = "idle"
    /\ dtext = <<>> /\ shown = <<>> /\ mpc = "idle"
    /\ LocateIdle

InitParse ==
    /\ input \in ParseInputs
    /\ rest = input
    /\ stmts = <<>>
    /\ pstate = "many0"
    /\ ItemsIdle
    /\ CtxIdle
    /\ DumpIdle
    /\ PickIdle

\* many0: one more statement parsed
Many0Step ==
    /\ pstate = "many0"
    /\ \E r \in {parse_statement(rest)} :
           /\ r.ok
           /\ stmts' = Append(stmts, r.val)
           /\ rest' = r.rest
    /\ UNCHANGED <<input, pstate>>
    /\ UNCHANGED notParse

\* many0 stops at the first statement that does not parse; parse_file
\* returns the statements when nothing is left over and an error otherwise
ParseFileEnd ==
    /\ pstate = "many0"
    /\ ~parse_statement(rest).ok
    /\ pstate' = IF rest = <<>> THEN "Ok" ELSE "Err"
    /\ UNCHANGED <<input, rest, stmts>>
    /\ UNCHANGED notParse

NextParse == Many0Step \/ ParseFileEnd

SpecParse == InitParse /\ [][NextParse]_vars

-----------------------------------------------------------------------------
(* demangle.rs demangled, and the names it is applied to *)

\* no demangled name
NoDem == [name |-> None, hashed |-> None]

\* rustc_demangle::try_demangle on the identifiers of the alphabet: the
\* short name ({:#?}) and the name with its hash ({:?}), or NoDem
try_demangle(id) ==
    IF id \in {<<"_ZN3foo17h1E">>, <<"__ZN3foo17h1E">>}
    THEN [name |-> <<"foo">>, hashed |-> <<"foo::h1">>]
    ELSE IF id = <<"_ZN3foo17h2E">> THEN [name |-> <<"foo">>, hashed |-> <<"foo::h2">>]
    ELSE IF id = <<"_ZN3bar17h3E">> THEN [name |-> <<"bar">>, hashed |-> <<"bar::h3">>]
    ELSE IF id = <<"_ZN3baz17h4E">> THEN [name |-> <<"baz">>, hashed |-> <<"baz::h4">>]
    ELSE IF id = <<"_ZN4foo217h5E">> THEN [name |-> <<"foo2">>, hashed |-> <<"foo2::h5">>]
    ELSE NoDem

\* the text after the first character of an identifier that starts with '_'
StripFirst(id) ==
    IF Head(id) = "__ZN3foo17h1E" THEN <<"_ZN3foo17h1E">> \o Tail(id)
    ELSE IF Head(id) = "_main" THEN <<"main">> \o Tail(id)
    ELSE IF Head(id) = "_notrust" THEN <<"notrust">> \o Tail(id)
    ELSE id

\* demangled: one leading underscore of a "__" name is dropped first
demangled(id) ==
    IF id # <<>> /\ Head(id) = "__ZN3foo17h1E" THEN try_demangle(StripFirst(id))
    ELSE try_demangle(id)

\* the short names an item can get
ShortNames == {<<"foo">>, <<"foo2">>, <<"bar">>, <<"baz">>, <<"main">>, <<"_main">>,
               <<"notrust">>, <<"_notrust">>, <<"GCC_except_table0">>}

-----------------------------------------------------------------------------
(* asm.rs find_items *)

\* the slack after which a .globl counts as a new section start (asm.rs:72)
GlobalSlack == 3

\* the longest span of a merged function (asm.rs:160)
MergedMaxLen == 10

FuncEndIds == {".Lfunc_end0", "Lfunc_end0"}

\* Statement::is_end_of_fn
is_end_of_fn(s) == s.t = "Label" /\ s.a # <<>> /\ Head(s.a) \in FuncEndIds

\* Statement::is_section_start
is_section_start(s) == s.t = "SectionStart"

\* Statement::is_global
is_global(s) == s.t = "Global"

URange(s, e) == [start |-> s, end |-> e]

\* Range<usize>::len
RangeLen(r) == IF r.start < r.end THEN r.end - r.start ELSE 0

MACOS_TEXT_SECTION == <<"__TEXT,__text,regular,pure_instructions">>

WINDOWS_TEXT_SECTION_PREFIX == <<".text,\"xr\",one_only,">>

LINUX_TEXT_PREFIX == <<".", "text", ".">>

\* get_item_in_section
get_item_in_section(ix, label, ss, strip_underscore) ==
    LET name == IF strip_underscore /\ Head(label.a) \in UnderIds
                THEN StripFirst(label.a) ELSE label.a
    IN  IF ~HasTag(ss, label.a) THEN NoItem
        ELSE [mangled_name |-> label.a, name |-> name, hashed |-> name,
              index |-> 0, len |-> ix, non_blank_len |-> 0]

\* handle_non_mangled_labels; ls is the statement stream, indices from 0
handle_non_mangled_labels(ls, ix, label, secStart) ==
    LET s      == ls[secStart + 1]
        is_mac == s.a = MACOS_TEXT_SECTION
        is_win == HasTag(s.a, WINDOWS_TEXT_SECTION_PREFIX)
        hits   == {j \in secStart..(ix - 1) :
                      /\ ls[j + 1].t = "Global"
                      /\ get_item_in_section(ix, label, ls[j + 1].a, is_mac) # NoItem}
    IN  IF secStart >= Len(ls) THEN NoItem
        ELSE IF s.t = "SectionStart"
        THEN IF is_win \/ is_mac
             THEN IF hits # {}
                  THEN get_item_in_section(ix, label, ls[MinOf(hits) + 1].a, is_mac)
                  ELSE NoItem
             ELSE IF HasTag(s.a, LINUX_TEXT_PREFIX)
                  THEN get_item_in_section(ix, label,
                                           Drop(s.a, Len(LINUX_TEXT_PREFIX)), FALSE)
                  ELSE NoItem
        ELSE IF s.t = "Global" THEN get_item_in_section(ix, label, s.a, TRUE)
        ELSE NoItem

\* BTreeMap::insert on the result map, a set of [item, range] entries
MapInsert(m, it, r) ==
    {e \in m : e.item # it} \cup {[item |-> it, range |-> r]}

\* the item a label opens, with its index not yet set, or NoItem
OpenedBy(ls, ix, line, secStart) ==
    IF demangled(line.a) # NoDem
    THEN [mangled_name |-> line.a, name |-> demangled(line.a).name,
          hashed |-> demangled(line.a).hashed,
          index |-> 0, len |-> ix, non_blank_len |-> 0]
    ELSE IF line.b \in {Unknown, Global}
    THEN handle_non_mangled_labels(ls, ix, line, secStart)
    ELSE NoItem

\* a counter that is never read: every item gets index 0
NextIndexFirst(nm, name) == 0

\* the index a new item of the given name gets from the name counter
NextIndex(nm, name) == nm[name]

\* the first loop of find_items: the iteration for line ix
\* a section start that is taken with an item open too
SectionStartAlways(ix) == ix

\* if item.is_none() { sec_start = ix; }: a section start with an item
\* open is ignored
SectionStartAt(ix) == IF item = NoItem THEN ix ELSE sec_start

\* a .globl that counts from 3 statements after the section start on
DeepGlobalFrom3(line, ix) == is_global(line) /\ sec_start + GlobalSlack <= ix

\* line.is_global() && sec_start + 3 < ix
DeepGlobal(line, ix) == is_global(line) /\ sec_start + GlobalSlack < ix

\* an item closed with the length of its range
ClosedItemSpan(it, ix) ==
    [it EXCEPT !.len = ix - sec_start, !.non_blank_len = ix - sec_start]

\* item.len = ix - item.len; item.non_blank_len = item.len: until it is
\* closed, len holds the index of the label
ClosedItem(it, ix) ==
    [it EXCEPT !.len = ix - it.len, !.non_blank_len = ix - it.len]

ScanLine ==
    /\ ipc = "scan"
    /\ six < Len(lines)
    /\ LET ix   == six
           line == lines[ix + 1]
       IN  IF is_section_start(line)
           THEN /\ sec_start' = SectionStartAt(ix)
                /\ UNCHANGED <<item, names, res, opened>>
           ELSE IF DeepGlobal(line, ix)
           THEN /\ sec_start' = ix
                /\ UNCHANGED <<item, names, res, opened>>
           ELSE IF is_end_of_fn(line)
           THEN /\ IF item # NoItem
                   THEN /\ res' = MapInsert(res, ClosedItem(item, ix),
                                             URange(sec_start, ix))
                        /\ item' = NoItem
                   ELSE UNCHANGED <<item, res>>
                /\ UNCHANGED <<sec_start, names, opened>>
           ELSE IF line.t = "Label" /\ OpenedBy(lines, ix, line, sec_start) # NoItem
           THEN LET i == OpenedBy(lines, ix, line, sec_start)
                IN  /\ item' = [i EXCEPT !.index = NextIndex(names, i.name)]
                    /\ names' = [names EXCEPT ![i.name] = @ + 1]
                    /\ opened' = opened \cup {[ix |-> ix, name |-> i.name]}
                    /\ UNCHANGED <<sec_start, res>>
           ELSE UNCHANGED <<sec_start, item, names, res, opened>>
    /\ six' = six + 1
    /\ UNCHANGED <<lines, ipc>>
    /\ UNCHANGED notItems

\* a map of globals that keeps the first .globl directive of a name
GlobalsGetFirst(ls, name) ==
    LET at == {j \in 0..(Len(ls) - 1) : ls[j + 1].t = "Global" /\ ls[j + 1].a = name}
    IN  IF at = {} THEN -1 ELSE MinOf(at)

\* globals: the index of the last .globl directive of a name, or -1
GlobalsGet(ls, name) ==
    LET at == {j \in 0..(Len(ls) - 1) : ls[j + 1].t = "Global" /\ ls[j + 1].a = name}
    IN  IF at = {} THEN -1 ELSE MaxOf(at)

RECURSIVE MergedFrom(_, _, _, _)
\* the second loop of find_items from line end on: the name counters and the
\* result map it leaves
MergedFrom(ls, end, nm, rs) ==
    IF end >= Len(ls) THEN [names |-> nm, res |-> rs]
    ELSE LET line  == ls[end + 1]
             start == GlobalsGet(ls, line.a)
             range == URange(start, end + 1)
             dem   == demangled(line.a)
         IN  IF line.t # "SetValue" \/ start = -1 THEN MergedFrom(ls, end + 1, nm, rs)
             ELSE IF RangeLen(range) > MergedMaxLen THEN MergedFrom(ls, end + 1, nm, rs)
             ELSE IF dem = NoDem THEN MergedFrom(ls, end + 1, nm, rs)
             ELSE MergedFrom(ls, end + 1,
                             [nm EXCEPT ![dem.name] = @ + 1],
                             MapInsert(rs,
                                 [mangled_name |-> line.a, name |-> dem.name,
                                  hashed |-> dem.hashed,
                                  index |-> NextIndex(nm, dem.name),
                                  len |-> RangeLen(range),
                                  non_blank_len |-> RangeLen(range)],
                                 range))

\* the merged-function pass of find_items, and its return
MergedPass ==
    /\ ipc = "scan"
    /\ six = Len(lines)
    /\ names' = MergedFrom(lines, 0, names, res).names
    /\ res' = MergedFrom(lines, 0, names, res).res
    /\ ipc' = "done"
    /\ UNCHANGED <<lines, six, sec_start, item, opened>>
    /\ UNCHANGED notItems

-----------------------------------------------------------------------------
(* find_items on statement streams *)

\* the longest stream built from the whole alphabet
MaxShort == 4

\* the most statements put between a .globl and its .set
MaxGap == 10

LabelStmt(id) == Stmt("Label", id, label_kind(id))

InstrStmt == Stmt("Instruction", <<"mov">>, None)

GlobalFoo == Stmt("Global", <<"_ZN3foo17h1E">>, None)

SetFoo == Stmt("SetValue", <<"_ZN3foo17h1E">>, <<"_ZN3bar17h3E">>)

ItemAlphabet ==
    { LabelStmt(<<"_ZN3foo17h1E">>), LabelStmt(<<"_ZN3foo17h2E">>),
      LabelStmt(<<"main">>), LabelStmt(<<".Lfunc_end0">>),
      Stmt("SectionStart", <<".", "text", ".", "main">>, None),
      GlobalFoo, SetFoo, InstrStmt }

Pad(n) == [i \in 1..n |-> InstrStmt]

ShortStreams == SeqsUpTo(ItemAlphabet, MaxShort)

\* a .globl, a gap of k statements and the .set, after p statements and with
\* more statements of the same names in between
GapStreams ==
    { Pad(p) \o <<GlobalFoo>> \o mid \o Pad(k) \o <<SetFoo>> :
        p \in 0..1, k \in 0..MaxGap,
        mid \in { <<>>, <<GlobalFoo>>,
                  <<LabelStmt(<<"_ZN3foo17h2E">>), LabelStmt(<<".Lfunc_end0">>)>> } }

\* the shapes of the three platforms: a macOS text section with a .globl, a
\* Windows section, a .globl deep in a section, two functions and a merged one
PlatformStreams ==
    { << Stmt("SectionStart", MACOS_TEXT_SECTION, None),
         Stmt("Global", <<"_main">>, None), LabelStmt(<<"_main">>),
         InstrStmt, LabelStmt(<<"Lfunc_end0">>) >>,
      << Stmt("SectionStart", WINDOWS_TEXT_SECTION_PREFIX \o <<"main">>, None),
         Stmt("Global", <<"main">>, None), LabelStmt(<<"main">>),
         InstrStmt, LabelStmt(<<".Lfunc_end0">>) >>,
      << Stmt("SectionStart", MACOS_TEXT_SECTION, None),
         InstrStmt, InstrStmt, InstrStmt, InstrStmt,
         Stmt("Global", <<"_notrust">>, None), LabelStmt(<<"_notrust">>),
         InstrStmt, LabelStmt(<<"Lfunc_end0">>) >>,
      << LabelStmt(<<"_ZN3foo17h1E">>), InstrStmt, LabelStmt(<<".Lfunc_end0">>),
         LabelStmt(<<"_ZN3foo17h2E">>), LabelStmt(<<".Lfunc_end0">>),
         GlobalFoo, SetFoo, GlobalFoo, InstrStmt, SetFoo >>,
      << InstrStmt, InstrStmt, InstrStmt, InstrStmt,
         GlobalFoo, LabelStmt(<<"_ZN3baz17h4E">>), SetFoo,
         LabelStmt(<<".Lfunc_end0">>) >>,
      << InstrStmt, InstrStmt, InstrStmt, GlobalFoo, InstrStmt, GlobalFoo,
         LabelStmt(<<"_ZN3foo17h1E">>), LabelStmt(<<".Lfunc_end0">>) >> }

CfiEndproc == Stmt("Generic", <<"cfi_endproc">>, None)

\* a label, what may stand between it and the end of its function, and an
\* end: .cfi_endproc or a function-end label
MarkerStreams ==
    { pre \o <<LabelStmt(<<"_ZN3foo17h1E">>)>> \o mid \o <<e>>
          \o (IF more THEN <<LabelStmt(<<"main">>), InstrStmt, e>> ELSE <<>>) :
        pre \in { <<>>, <<Stmt("SectionStart", <<".", "text", ".", "main">>, None)>>,
                  <<Stmt("SectionStart", <<".", "text", ".", "main">>, None), GlobalFoo>> },
        mid \in { <<>>, <<InstrStmt>>, Pad(4) \o <<GlobalFoo>>,
                  <<InstrStmt, Stmt("SectionStart", <<".", "text", ".", "main">>, None)>> },
        e \in { CfiEndproc, LabelStmt(<<".Lfunc_end0">>), LabelStmt(<<"Lfunc_end0">>) },
        more \in BOOLEAN }

ItemStreams == ShortStreams \cup GapStreams \cup PlatformStreams \cup MarkerStreams

ParseIdle == input = <<>> /\ rest = <<>> /\ stmts = <<>> /\ pstate = "idle"

InitItems ==
    /\ lines \in ItemStreams
    /\ six = 0 /\ sec_start = 0 /\ item = NoItem
    /\ names = [n \in ShortNames |-> 0]
    /\ res = {} /\ opened = {} /\ ipc = "scan"
    /\ ParseIdle
    /\ CtxIdle
    /\ DumpIdle
    /\ PickIdle

NextItems == ScanLine \/ MergedPass

SpecItems == InitItems /\ [][NextItems]_vars

-----------------------------------------------------------------------------
(* claims about parse_file *)

\* C1: parse_file maps a newline-terminated input of N lines to exactly N
\* statements, one per line and in order, so that no line is merged with
\* another, dropped or split
C1_OneStatementPerLine ==
    pstate = "Ok" => Len(stmts) = NumLines(input)

\* C2: parse_file never fails because of a line the grammar does not fully
\* recognise: an alternative that matches only a prefix of a line is
\* discarded and a later alternative classifies the line
C2_NeverFails ==
    pstate # "Err"

-----------------------------------------------------------------------------
(* claims about find_items *)

\* the line of the label that opened the item of a map entry
LabelIx(e) == e.range.end - e.item.len

\* the entry was made by the first loop: it ends at an end-of-function label
\* and its label is len lines before
IsLabelItem(e) ==
    /\ e.range.end < Len(lines)
    /\ is_end_of_fn(lines[e.range.end + 1])
    /\ LabelIx(e) >= 0
    /\ lines[LabelIx(e) + 1].t = "Label"
    /\ lines[LabelIx(e) + 1].a = e.item.mangled_name

SameName(e1, e2) == e1.item.name = e2.item.name

\* C3: two distinct items of the returned map with the same short name have
\* different indices; the index of an item opened by a label is the number
\* of earlier labels that opened an item of that short name, every label
\* that demangles being one of them; the index of an item of the merged
\* pass continues that counter after all labels and earlier merged items
C3_IndexPerName ==
    ipc = "done" =>
        /\ \A e1 \in res : \A e2 \in res :
               (e1.item # e2.item /\ SameName(e1, e2))
                   => e1.item.index # e2.item.index
        /\ \A j \in 0..(Len(lines) - 1) :
               (lines[j + 1].t = "Label" /\ demangled(lines[j + 1].a) # NoDem)
                   => [ix |-> j, name |-> demangled(lines[j + 1].a).name] \in opened
        /\ \A e \in res :
               IsLabelItem(e) =>
                   e.item.index = Cardinality({o \in opened :
                                      o.name = e.item.name /\ o.ix < LabelIx(e)})
        /\ \A e \in res :
               ~IsLabelItem(e) =>
                   e.item.index =
                       Cardinality({o \in opened : o.name = e.item.name})
                       + Cardinality({e2 \in res :
                             /\ ~IsLabelItem(e2) /\ SameName(e, e2)
                             /\ e2.range.end < e.range.end})

\* two labels of one short name got 0 and 1 and a merged item of that name 2
C3_Witness ==
    /\ ipc = "done"
    /\ \E e1 \in res : \E e2 \in res : \E e3 \in res :
           /\ IsLabelItem(e1) /\ IsLabelItem(e2) /\ ~IsLabelItem(e3)
           /\ e1.item.mangled_name # e2.item.mangled_name
           /\ SameName(e1, e2) /\ SameName(e2, e3)
           /\ e1.item.index = 0 /\ e2.item.index = 1 /\ e3.item.index = 2

\* the map has an item for name with range g..e+1 and that length
HasMerged(name, g, e) ==
    \E x \in res :
        /\ x.item.mangled_name = name
        /\ x.range = URange(g, e + 1)
        /\ x.item.len = e + 1 - g
        /\ x.item.non_blank_len = e + 1 - g

\* line e is a .set of a name that demangles and line g <= e a .globl of it
SetOfGlobal(g, e) ==
    /\ g <= e
    /\ lines[e + 1].t = "SetValue"
    /\ lines[g + 1].t = "Global"
    /\ lines[g + 1].a = lines[e + 1].a
    /\ demangled(lines[e + 1].a) # NoDem

\* no later line is a .globl of the name of line g
LastGlobal(g) ==
    \A j \in (g + 1)..(Len(lines) - 1) :
        ~(lines[j + 1].t = "Global" /\ lines[j + 1].a = lines[g + 1].a)

\* C4 as stated: for every .set at e and every .globl of its name at g <= e,
\* the map has the item g..e+1 if and only if the span is at most 10 long
C4_AnyGlobal ==
    ipc = "done" =>
        \A e \in 0..(Len(lines) - 1) : \A g \in 0..e :
            SetOfGlobal(g, e)
                => (HasMerged(lines[e + 1].a, g, e) <=> e + 1 - g <= 10)

\* C4: for every .set at e whose name demangles, where g <= e is the last
\* .globl of that name in the stream, the map has the item g..e+1 with
\* len = non_blank_len = e+1-g if and only if the span is at most 10 long
C4_LastGlobal ==
    ipc = "done" =>
        \A e \in 0..(Len(lines) - 1) : \A g \in 0..e :
            (SetOfGlobal(g, e) /\ LastGlobal(g))
                => (HasMerged(lines[e + 1].a, g, e) <=> e + 1 - g <= 10)

\* a span of exactly 10 statements gave an item and the stream is longer
C4_Witness ==
    /\ ipc = "done"
    /\ \E e \in 0..(Len(lines) - 1) : \E g \in 0..e :
           /\ SetOfGlobal(g, e) /\ LastGlobal(g)
           /\ e + 1 - g = 10
           /\ HasMerged(lines[e + 1].a, g, e)
           /\ g > 0

-----------------------------------------------------------------------------
(* lib.rs get_context_for *)

\* the deepest --context given
MaxDepth == 2

\* the strings of item fields in the order of str::cmp (byte order)
StrOrder ==
    << <<"GCC_except_table0">>, <<"_ZN3bar17h3E">>, <<"_ZN3baz17h4E">>,
       <<"_ZN3foo17h1E">>, <<"_ZN3foo17h2E">>, <<"_ZN4foo217h5E">>,
       <<"__ZN3foo17h1E">>, <<"_main">>, <<"_notrust">>, <<"bar">>,
       <<"bar::h3">>, <<"baz">>, <<"baz::h4">>, <<"foo">>, <<"foo2">>,
       <<"foo2::h5">>, <<"foo::h1">>, <<"foo::h2">>, <<"main">>,
       <<"notrust">> >>

StrRank(s) == CHOOSE i \in 1..Len(StrOrder) : StrOrder[i] = s

\* #[derive(Ord)] of Item: the fields in declaration order
ItemKey(it) ==
    << StrRank(it.name), StrRank(it.hashed), it.index, it.len,
       it.non_blank_len, StrRank(it.mangled_name) >>

RECURSIVE LexLess(_, _)
LexLess(a, b) ==
    IF a = <<>> \/ b = <<>> THEN FALSE
    ELSE IF Head(a) # Head(b) THEN Head(a) < Head(b)
    ELSE LexLess(Tail(a), Tail(b))

ItemLess(a, b) == LexLess(ItemKey(a), ItemKey(b))

NoRange == [start |-> -1, end |-> -1]

\* items.get(raw) on the map from mangled name to range that is collected
\* from the item map in its order: the last item of a name gives the range
items_get(m, raw) ==
    IF \A e \in m : e.item.mangled_name # raw THEN NoRange
    ELSE (CHOOSE e \in m :
              /\ e.item.mangled_name = raw
              /\ \A o \in m : (o.item.mangled_name = raw /\ o # e)
                                  => ItemLess(o.item, e.item)).range

\* RawLines for Statement: the text that is scanned for a reference
RawLines(s) ==
    IF s.t \in {"Instruction", "SetValue"} THEN s.b ELSE None

\* filter_map(R::lines).filter_map(global_reference) for one statement
RefOf(s) ==
    IF RawLines(s) = None THEN None ELSE global_reference(RawLines(s))

\* slicing with a range panics when it is reversed or ends after the slice
SliceOk(r) == r.start <= r.end /\ r.end <= Len(lines)

\* a worklist that is popped without losing its last entry
PopKeep(v) == v

\* Vec::pop: what is left of the worklist
PopRest(v) == SubSeq(v, 1, Len(v) - 1)

\* the body of the if let Some(range) = items.get(raw)
CtxFound(st, range, d) ==
    IF range = NoRange \/ range = self_range THEN st
    ELSE [st EXCEPT
            !.pending = IF d > 0 THEN Append(@, [range |-> range, depth |-> d - 1])
                        ELSE @,
            !.out = Append(@, range)]

\* the body of the for loop for one reference
CtxVisit(st, raw, d) ==
    IF raw = None \/ raw \in st.processed THEN st
    ELSE CtxFound([st EXCEPT !.processed = @ \cup {raw}], items_get(res, raw), d)

RECURSIVE CtxScan(_, _, _, _)
\* the for loop over all_stmts[i..end]
CtxScan(i, end, d, st) ==
    IF i >= end THEN st
    ELSE CtxScan(i + 1, end, d, CtxVisit(st, RefOf(lines[i + 1]), d))

\* sort_by_key(|r| r.start) is stable: x, the last element, goes after the
\* elements of the sorted rest whose start is not larger
InsertByStart(sorted, x) ==
    Take(sorted, Cardinality({i \in 1..Len(sorted) : sorted[i].start <= x.start}))
    \o <<x>>
    \o Drop(sorted, Cardinality({i \in 1..Len(sorted) : sorted[i].start <= x.start}))

RECURSIVE SortByStart(_)
SortByStart(s) ==
    IF s = <<>> THEN <<>>
    ELSE InsertByStart(SortByStart(SubSeq(s, 1, Len(s) - 1)), s[Len(s)])

\* the formats a context is asked with
CtxFormats ==
    { [DefaultFormat EXCEPT !.context = c, !.include_constants = k, !.simplify = s] :
        c \in 0..MaxDepth, k \in BOOLEAN, s \in BOOLEAN }

\* dump_function: extra_context is called with the range of an item;
\* get_context_for returns at once when the depth is 0
CtxStart ==
    /\ ipc = "done" /\ cpc = "wait"
    /\ \E e \in res : self_range' = e.range
    /\ fmt' \in CtxFormats
    /\ pending' = IF fmt'.context = 0 THEN <<>>
                  ELSE <<[range |-> self_range', depth |-> fmt'.context]>>
    /\ processed' = {} /\ out' = <<>>
    /\ cpc' = "context"
    /\ UNCHANGED <<cpend, seen, xres>>
    /\ UNCHANGED notCtx

\* one turn of while let Some((range, depth)) = pending.pop()
CtxPop ==
    /\ cpc = "context" /\ pending # <<>>
    /\ \E top \in {pending[Len(pending)]} :
          IF ~SliceOk(top.range)
          THEN /\ cpc' = "panic"
               /\ UNCHANGED <<pending, processed, out>>
          ELSE /\ \E st \in {CtxScan(top.range.start, top.range.end, top.depth,
                                     [pending |-> PopRest(pending),
                                      processed |-> processed, out |-> out])} :
                      /\ pending' = st.pending
                      /\ processed' = st.processed
                      /\ out' = st.out
               /\ UNCHANGED cpc
    /\ UNCHANGED <<fmt, self_range, cpend, seen, xres>>
    /\ UNCHANGED notCtx

DigitVal(d) == IF d = "0" THEN 0 ELSE IF d = "1" THEN 1 ELSE 5

RECURSIVE NumVal(_)
\* the number a sequence of decimal digits stands for
NumVal(ds) ==
    IF ds = <<>> THEN 0
    ELSE 10 * NumVal(SubSeq(ds, 1, Len(ds) - 1)) + DigitVal(ds[Len(ds)])

\* the indexes of the .file directives of the statements
FileIds(ls) == {NumVal(ls[i].a) : i \in {j \in 1..Len(ls) : ls[j].t = "File"}}

\* what locate_sources and the read of the file can leave for one index: the
\* file read (shown or not for --sources-from, of five lines or of one), or
\* no file found
SourceFiles ==
    { [src |-> TRUE, shown |-> TRUE, nlines |-> 5],
      [src |-> TRUE, shown |-> TRUE, nlines |-> 1],
      [src |-> TRUE, shown |-> FALSE, nlines |-> 5],
      [src |-> FALSE, shown |-> FALSE, nlines |-> 0] }

\* load_rust_sources: the tables it can leave; every index of a .file
\* directive has an entry, an entry that is there is kept
load_rust_sources(ls, fs) ==
    { t \in [FileIds(ls) \cup DOMAIN fs -> SourceFiles] :
        \A f \in DOMAIN fs : t[f] = fs[f] }

\* get_context_for returns the sorted list; extra_context loads the sources
\* with --rust and starts the scan for constants with the printed range when
\* constants are asked for
CtxReturn ==
    /\ cpc = "context" /\ pending = <<>>
    /\ out' = SortByStart(out)
    /\ xres' = out'
    /\ cpend' = IF fmt.include_constants THEN <<self_range>> ELSE <<>>
    /\ seen' = {}
    /\ cpc' = "constants"
    /\ files' \in (IF fmt.rust THEN load_rust_sources(lines, files) ELSE {files})
    /\ UNCHANGED <<fmt, self_range, pending, processed>>
    /\ UNCHANGED <<prev_loc, used, empty_line, dix, output, dpc>>
    /\ UNCHANGED <<parseVars, itemVars, pickVars, demVars, locVars>>

-----------------------------------------------------------------------------
(* asm.rs Asm::extra_context: the scan for constants, and --simplify *)

\* URange::fully_contains
fully_contains(self, other) ==
    self.start >= other.start /\ self.end <= other.end

\* constants.get(name): the index of the last label of that name that is
\* followed by a data declaration, or -1
ConstantsGet(ls, name) ==
    IF \A ix \in 0..(Len(ls) - 2) :
           ~(ls[ix + 1].t = "Label" /\ ls[ix + 1].a = name /\ ls[ix + 2].t = "Data")
    THEN -1
    ELSE MaxOf({ix \in 0..(Len(ls) - 2) :
                   ls[ix + 1].t = "Label" /\ ls[ix + 1].a = name
                   /\ ls[ix + 2].t = "Data"})

\* take_while(Data).count() on body[from..]
DataRun(ls, from) ==
    IF \A j \in from..(Len(ls) - 1) : ls[j + 1].t = "Data" THEN Len(ls) - from
    ELSE MinOf({j \in from..(Len(ls) - 1) : ls[j + 1].t # "Data"}) - from

\* scan_constant
scan_constant(name, ls) ==
    IF ConstantsGet(ls, name) = -1 THEN NoRange
    ELSE [start |-> ConstantsGet(ls, name),
          end |-> ConstantsGet(ls, name) + DataRun(ls, ConstantsGet(ls, name) + 1) + 1]

\* the labels found in a statement of the scanned range
ConstRefs(s) ==
    IF s.t = "Instruction" /\ s.b # None THEN local_labels(s.b)
    ELSE IF s.t = "Generic" THEN local_labels(s.a)
    ELSE <<>>

RECURSIVE RefsIn(_, _)
\* the labels found in lines[i..end], in the order of the two for loops
RefsIn(i, end) ==
    IF i >= end THEN <<>> ELSE ConstRefs(lines[i + 1]) \o RefsIn(i + 1, end)

\* the label names a constant range that is pushed
Pushed(label, sn) ==
    /\ scan_constant(label, lines) # NoRange
    /\ scan_constant(label, lines) \notin sn
    /\ ~fully_contains(self_range, scan_constant(label, lines))

RECURSIVE PushAll(_, _, _)
PushAll(labels, pend, sn) ==
    IF labels = <<>> THEN pend
    ELSE PushAll(Tail(labels),
                 IF Pushed(Head(labels), sn)
                 THEN Append(pend, scan_constant(Head(labels), lines)) ELSE pend,
                 sn)

\* one turn of while let Some(subset) = pending.pop()
ConstPop ==
    /\ cpc = "constants" /\ cpend # <<>>
    /\ \E subset \in {cpend[Len(cpend)]} :
          /\ seen' = seen \cup {subset}
          /\ IF ~SliceOk(subset)
             THEN cpc' = "panic" /\ UNCHANGED cpend
             ELSE /\ cpend' = PushAll(RefsIn(subset.start, subset.end),
                                      PopRest(cpend), seen')
                  /\ UNCHANGED cpc
    /\ UNCHANGED <<fmt, self_range, pending, processed, out, xres>>
    /\ UNCHANGED notCtx

\* a test without the two exceptions
BoringEveryDirective(s) == IsDirective(s) \/ s.t = "Dunno"

\* Statement::boring
boring(s) ==
    IF s.t = "SetValue" THEN FALSE
    ELSE IF s.t = "SectionStart"
            /\ (HasTag(s.a, <<".", "data">>) \/ HasTag(s.a, <<".", "rodata">>))
    THEN FALSE
    ELSE IsDirective(s) \/ s.t = "Dunno"

\* the closure of res.retain: some statement of the range is worth printing
Retained(r) ==
    \E i \in r.start..(r.end - 1) :
        ~(boring(lines[i + 1]) \/ lines[i + 1].t \in {"Nothing", "Label"})

RECURSIVE RangeSeq(_)
\* the ranges of a BTreeSet<URange> in its order: by start, then by end
RangeSeq(S) ==
    IF S = {} THEN <<>>
    ELSE <<CHOOSE r \in S : \A o \in S :
               r.start < o.start \/ (r.start = o.start /\ r.end <= o.end)>>
         \o RangeSeq(S \ {CHOOSE r \in S : \A o \in S :
               r.start < o.start \/ (r.start = o.start /\ r.end <= o.end)})

\* res after the ranges of the constants are pushed
WithConstants ==
    IF fmt.include_constants THEN xres \o RangeSeq(seen \ {self_range}) ELSE xres

\* the end of extra_context: the constants seen are added, and with
\* --simplify the ranges with nothing worth printing are dropped
ExtraReturn ==
    /\ cpc = "constants" /\ cpend = <<>>
    /\ IF fmt.simplify /\ \E k \in 1..Len(WithConstants) : ~SliceOk(WithConstants[k])
       THEN cpc' = "panic" /\ xres' = WithConstants
       ELSE /\ cpc' = "done"
            /\ xres' = IF fmt.simplify THEN SelectSeq(WithConstants, Retained)
                       ELSE WithConstants
    /\ UNCHANGED <<fmt, self_range, pending, processed, out, cpend, seen>>
    /\ UNCHANGED notCtx

-----------------------------------------------------------------------------
(* find_items and extra_context on streams of functions and constants *)

Fn(sec, label, args) ==
    << Stmt("SectionStart", <<".", "text", ".">> \o sec, None), LabelStmt(label),
       Stmt("Instruction", <<"mov">>, args), LabelStmt(<<".Lfunc_end0">>) >>

\* what the instruction of a function refers to
RefArgs ==
    { None, <<"_ZN3foo17h1E">>, <<"_ZN3bar17h3E">>, <<"_ZN3baz17h4E">>,
      <<"_ZN3bar17h3E", ",", "_ZN3baz17h4E">>, <<".L1">>,
      <<"al", ",", " ", ".L1">> }

DataStmt == Stmt("Data", <<"byte">>, <<"0">>)

\* three functions, each with one reference out of A, and a constant
FnStreamsOver(A) ==
    { Fn(<<"foo">>, <<"_ZN3foo17h1E">>, a1) \o Fn(<<"bar">>, <<"_ZN3bar17h3E">>, a2)
      \o Fn(<<"baz">>, <<"_ZN3baz17h4E">>, a3)
      \o <<LabelStmt(<<".L1">>), DataStmt, DataStmt>> :
        a1 \in A, a2 \in A, a3 \in A }

FnStreams == FnStreamsOver(RefArgs)

\* a function and a merged function that share a range, both referred to by
\* another function; and a .set before its .globl, referred to by a function
OddStreams ==
    { << Stmt("SectionStart", <<".", "text", ".", "bar">>, None),
         LabelStmt(<<"_ZN3bar17h3E">>),
         Stmt("Instruction", <<"mov">>, <<"_ZN3baz17h4E">>),
         Stmt("Instruction", <<"mov">>, <<"_ZN3foo17h1E">>),
         LabelStmt(<<".Lfunc_end0">>),
         GlobalFoo, LabelStmt(<<"_ZN3baz17h4E">>), SetFoo,
         LabelStmt(<<".Lfunc_end0">>) >>,
      << SetFoo, InstrStmt, GlobalFoo >>
         \o Fn(<<"bar">>, <<"_ZN3bar17h3E">>, <<"_ZN3foo17h1E">>) }

\* a constant whose data names another constant, and a constant that lies
\* inside the function that refers to it
ConstStreams ==
    { Fn(<<"foo">>, <<"_ZN3foo17h1E">>, <<".L1">>)
         \o << LabelStmt(<<".L1">>), Stmt("Data", <<"quad">>, <<".L2">>),
               LabelStmt(<<".L2">>), DataStmt >>,
      << Stmt("SectionStart", <<".", "text", ".", "foo">>, None),
         LabelStmt(<<"_ZN3foo17h1E">>),
         Stmt("Instruction", <<"mov">>, <<".L1">>),
         LabelStmt(<<".L1">>), DataStmt,
         LabelStmt(<<".Lfunc_end0">>) >> }

CtxStreams == FnStreams \cup OddStreams \cup ConstStreams

\* the references of which the cycles are made
CycleArgs == {None, <<"_ZN3foo17h1E">>, <<"_ZN3bar17h3E">>, <<".L1">>}

\* the streams with a function that refers to itself, two that refer to
\* each other, and references to a constant
CycleStreams == FnStreamsOver(CycleArgs) \cup OddStreams

InitCtxOn(S) ==
    /\ lines \in S
    /\ six = 0 /\ sec_start = 0 /\ item = NoItem
    /\ names = [n \in ShortNames |-> 0]
    /\ res = {} /\ opened = {} /\ ipc = "scan"
    /\ ParseIdle
    /\ fmt = DefaultFormat /\ self_range = [start |-> 0, end |-> 0]
    /\ pending = <<>> /\ processed = {} /\ out = <<>>
    /\ cpend = <<>> /\ seen = {} /\ xres = <<>> /\ cpc = "wait"
    /\ DumpIdle
    /\ PickIdle

InitCtx == InitCtxOn(CtxStreams)

InitCycles == InitCtxOn(CycleStreams)

NextCtx ==
    \/ ScanLine \/ MergedPass
    \/ CtxStart \/ CtxPop \/ CtxReturn \/ ConstPop \/ ExtraReturn

SpecCtx == InitCtx /\ [][NextCtx]_vars

\* the program is not stopped while it has a step to take
SpecCtxFair == InitCycles /\ [][NextCtx]_vars /\ WF_vars(NextCtx)

-----------------------------------------------------------------------------
(* claims about extra_context and get_context_for *)

\* a statement of the range refers first to the symbol
RefersTo(r, name) ==
    \E i \in r.start..(r.end - 1) : RefOf(lines[i + 1]) = name

AllRefs(s) ==
    IF RawLines(s) = None THEN {}
    ELSE {GlobalMatch(RawLines(s), i) :
              i \in {j \in 1..Len(RawLines(s)) : GlobalAt(RawLines(s), j)}}

\* range r2 is the range of an item that a statement of range r1 mentions
Hop(r1, r2) ==
    \E e \in res :
        /\ e.range = r2
        /\ \E i \in r1.start..(r1.end - 1) : e.item.mangled_name \in AllRefs(lines[i + 1])

RECURSIVE Reach(_, _)
\* the ranges at the end of a chain of 1..d references from a range of S
Reach(S, d) ==
    IF d = 0 THEN {}
    ELSE {e.range : e \in {x \in res : \E r1 \in S : Hop(r1, x.range)}}
         \cup Reach({e.range : e \in {x \in res : \E r1 \in S : Hop(r1, x.range)}},
                    d - 1)

\* C6: get_context_for with depth d returns only ranges of items at the end
\* of a chain of at most d references from the chosen range, and nothing
\* with depth 0
C6_WithinDepth ==
    cpc \in {"constants", "done"} =>
        \A k \in 1..Len(out) : out[k] \in Reach({self_range}, fmt.context)

\* C7: the list get_context_for returns holds neither the chosen range nor
\* any range twice
C7_NoSelfNoRepeat ==
    cpc \in {"constants", "done"} =>
        /\ \A k \in 1..Len(out) : out[k] # self_range
        /\ \A k \in 1..Len(out) : \A l \in 1..Len(out) : k # l => out[k] # out[l]

-----------------------------------------------------------------------------
(* asm.rs used_labels and dump_range *)

\* the text of a statement that used_labels scans, or None
UsedText(s) ==
    IF s.t \in {"Data", "SetValue"} THEN s.b
    ELSE IF s.t \in {"Generic", "SectionStart", "Dunno"} THEN s.a
    ELSE IF s.t = "Instruction" THEN s.b
    ELSE None

\* used_labels: the texts of the local-label matches in the slice
used_labels(ls) ==
    UNION { {local_labels(UsedText(ls[i]))[k] :
                 k \in 1..Len(local_labels(UsedText(ls[i])))} :
            i \in {j \in 1..Len(ls) : UsedText(ls[j]) # None} }

\* the Loc of a .loc directive
LocOf(s) ==
    [file |-> NumVal(s.a[1]), line |-> NumVal(s.a[2]),
     column |-> NumVal(s.b[1]), extra |-> s.b[2]]

\* an equality on all four fields
LocEqAll(x, y) == x = y

\* Loc::eq: self.file == other.file && self.line == other.line
LocEq(x, y) == x.file = y.file /\ x.line = y.line

\* what one statement of the slice adds to the output: its kind and the
\* index of the statement
Printed(k, ix) == <<[k |-> k, ix |-> ix]>>

\* the {line:?} echo of every statement with -vvvv
Echo(ix) == IF fmt.verbosity > 3 THEN Printed("debug", ix) ELSE <<>>

\* what the match on files.get(&loc.file) prints for a known file
LocLines(f, loc, ix) ==
    IF f.src
    THEN IF f.shown
         THEN Printed("pos", ix)
              \o (IF loc.line - 1 < f.nlines THEN Printed("rust", ix)
                  ELSE Printed("corrupted", ix))
         ELSE <<>>
    ELSE (IF fmt.verbosity > 1 THEN Printed("cantlocate", ix) ELSE <<>>)
         \o Printed("pos", ix)

\* the loop is at statement ix of the slice
AtLine == dpc = "dump" /\ dix < Len(lines)

\* a .file directive prints nothing
DumpFile ==
    /\ AtLine
    /\ lines[dix + 1].t = "File"
    /\ output' = output \o Echo(dix)
    /\ dix' = dix + 1
    /\ UNCHANGED <<files, prev_loc, used, empty_line, dpc>>
    /\ UNCHANGED notDump

\* a test that leaves out fmt.rust
LocSkippedRust(loc) == loc.line = 0 \/ LocEq(loc, prev_loc)

\* the three `continue`s of the .loc arm: !fmt.rust, loc.line == 0,
\* loc == &prev_loc
LocSkipped(loc) == ~fmt.rust \/ loc.line = 0 \/ LocEq(loc, prev_loc)

\* a .loc directive prints the source line it points to, with --rust, when
\* its line is not 0 and it differs from the previous one
DumpLoc ==
    /\ AtLine
    /\ lines[dix + 1].t = "Loc"
    /\ \E loc \in {LocOf(lines[dix + 1])} :
          IF LocSkipped(loc)
          THEN /\ output' = output \o Echo(dix)
               /\ dix' = dix + 1
               /\ UNCHANGED <<prev_loc, empty_line, dpc>>
          ELSE /\ prev_loc' = loc
               /\ IF loc.file \in DOMAIN files
                  THEN /\ output' = output \o Echo(dix)
                                    \o LocLines(files[loc.file], loc, dix)
                       /\ empty_line' = FALSE
                       /\ dix' = dix + 1
                       /\ UNCHANGED dpc
                  ELSE /\ output' = output \o Echo(dix)
                       /\ dpc' = "panic"
                       /\ UNCHANGED <<empty_line, dix>>
    /\ UNCHANGED <<files, used>>
    /\ UNCHANGED notDump

\* a guard that lets every label through
AlwaysShown(ix, id) == TRUE

\* _ if ix == 0 || used.contains(id): the label is printed under any policy
FirstOrUsed(ix, id) == ix = 0 \/ id \in used

\* a blank line for every label
BlankAlways(kind) == TRUE

\* if !empty_line && *kind != LabelKind::Temp: the label leaves a blank line
BlankDue(kind) == ~empty_line /\ kind # Temp

\* a Local or Temp label is printed when it is first or used; otherwise the
\* policy decides
DumpLabel ==
    /\ AtLine
    /\ lines[dix + 1].t = "Label"
    /\ lines[dix + 1].b \in {Local, Temp}
    /\ IF FirstOrUsed(dix, lines[dix + 1].a)
       THEN /\ output' = output \o Echo(dix) \o Printed("label", dix)
            /\ UNCHANGED empty_line
       ELSE IF fmt.redundant_labels = "Keep"
       THEN /\ output' = output \o Echo(dix) \o Printed("label", dix)
            /\ UNCHANGED empty_line
       ELSE IF fmt.redundant_labels = "Blanks" /\ BlankDue(lines[dix + 1].b)
       THEN /\ output' = output \o Echo(dix) \o Printed("blank", dix)
            /\ empty_line' = TRUE
       ELSE /\ output' = output \o Echo(dix)
            /\ UNCHANGED empty_line
    /\ dix' = dix + 1
    /\ UNCHANGED <<files, prev_loc, used, dpc>>
    /\ UNCHANGED notDump

\* any other statement is printed, unless it is boring and --simplify is on
DumpOther ==
    /\ AtLine
    /\ lines[dix + 1].t \notin {"File", "Loc"}
    /\ ~(lines[dix + 1].t = "Label" /\ lines[dix + 1].b \in {Local, Temp})
    /\ IF fmt.simplify /\ boring(lines[dix + 1])
       THEN output' = output \o Echo(dix) /\ UNCHANGED empty_line
       ELSE output' = output \o Echo(dix) \o Printed("stmt", dix)
                /\ empty_line' = FALSE
    /\ dix' = dix + 1
    /\ UNCHANGED <<files, prev_loc, used, dpc>>
    /\ UNCHANGED notDump

\* the loop is over: Ok(())
DumpEnd ==
    /\ dpc = "dump" /\ dix = Len(lines)
    /\ dpc' = "done"
    /\ UNCHANGED <<files, prev_loc, used, empty_line, dix, output>>
    /\ UNCHANGED notDump

-----------------------------------------------------------------------------
(* dump_range on slices *)

\* the longest slice built from the whole alphabet
MaxSlice == 2

\* the longest run of labels in the slices made of runs
MaxRun == 3

InstrArgs(args) == Stmt("Instruction", <<"mov">>, args)

LocStmt(file, line) == Stmt("Loc", <<file, line>>, <<<<"1">>, None>>)

LocStmtAt(file, line, column, extra) ==
    Stmt("Loc", <<file, line>>, <<column, extra>>)

FileStmt == Stmt("File", <<"1">>, <<<<"\"f.rs\"">>, None, None>>)

CfiStmt == Stmt("Generic", <<"cfi_startproc">>, None)

DumpAlphabet ==
    { InstrStmt, InstrArgs(<<".L1">>), InstrArgs(<<"al", ",", " ", ".L1">>),
      InstrArgs(<<"Ltmp1">>), InstrArgs(<<"LBB0_1">>),
      LabelStmt(<<".L1">>), LabelStmt(<<".L2">>), LabelStmt(<<"Ltmp1">>),
      LabelStmt(<<"LBB0_1">>), LabelStmt(<<"main">>),
      LocStmt(<<"1">>, <<"5">>), LocStmt(<<"1">>, <<"0">>), LocStmt(<<"5">>, <<"1">>),
      FileStmt, CfiStmt, Stmt("Nothing", None, None) }

ShortSlices == SeqsUpTo(DumpAlphabet, MaxSlice)

\* runs of labels that nothing refers to
Runs == SeqsUpTo({LabelStmt(<<".L2">>), LabelStmt(<<"Ltmp1">>)}, MaxRun)

\* what stands between two runs
Mids ==
    { <<InstrStmt>>, <<LabelStmt(<<".L1">>)>>, <<CfiStmt>>, <<FileStmt>>,
      <<LocStmt(<<"1">>, <<"5">>)>>, <<>> }

\* a statement, a run of labels, something in between and a second run
RunSlices ==
    { <<h>> \o r1 \o m \o r2 :
        h \in {InstrStmt, InstrArgs(<<".L1">>)}, r1 \in Runs, m \in Mids,
        r2 \in SeqsUpTo({LabelStmt(<<".L2">>), LabelStmt(<<"Ltmp1">>)}, 1) }

\* the longest slice made of .loc directives and instructions
MaxLocs == 3

\* slices of .loc directives of file 1 and instructions
LocSlices ==
    SeqsUpTo({ LocStmt(<<"1">>, <<"5">>), LocStmt(<<"1">>, <<"0">>),
               LocStmtAt(<<"1">>, <<"5">>, <<"5">>, <<"prologue_end">>),
               LocStmt(<<"1">>, <<"1">>), InstrStmt }, MaxLocs)

\* slices with the statements --simplify tells apart: directives, the
\* sections of data, a .set, a line that was not parsed, a blank line
SimplifySlices ==
    { << InstrStmt, SetFoo, Stmt("SectionStart", <<".", "data">>, None),
         Stmt("Dunno", <<"foo">>, None), GlobalFoo, Stmt("Nothing", None, None),
         LabelStmt(<<"main">>) >>,
      << Stmt("SectionStart", <<".", "rodata", ".", "str1">>, None),
         Stmt("Data", <<"byte">>, <<"0">>),
         Stmt("SectionStart", <<".", "text", ".", "foo">>, None),
         CfiStmt, Stmt("SymIsFun", <<"main">>, None),
         Stmt("SubsectionsViaSym", None, None), InstrArgs(<<".L1">>),
         LabelStmt(<<".L1">>) >> }

DumpSlices == ShortSlices \cup RunSlices \cup LocSlices \cup SimplifySlices

\* the tables load_rust_sources can leave: file 1 read, file 1 read but not
\* shown for --sources-from, and file 1 not found; file 5 is never there
FileTables ==
    { [f \in {1} |-> [src |-> TRUE, shown |-> TRUE, nlines |-> 5]],
      [f \in {1} |-> [src |-> TRUE, shown |-> TRUE, nlines |-> 1]],
      [f \in {1} |-> [src |-> TRUE, shown |-> FALSE, nlines |-> 5]],
      [f \in {1} |-> [src |-> FALSE, shown |-> FALSE, nlines |-> 0]] }

Policies == {"Keep", "Blanks", "Strip"}

DumpFormats ==
    { [DefaultFormat EXCEPT !.redundant_labels = p, !.simplify = s,
                            !.rust = r, !.verbosity = v] :
        p \in Policies, s \in BOOLEAN, r \in BOOLEAN, v \in {0, 4} }

InitDump ==
    /\ lines \in DumpSlices
    /\ fmt \in DumpFormats
    /\ files \in (IF fmt.rust THEN FileTables ELSE {NoFiles})
    /\ prev_loc = NoLoc
    /\ used = IF fmt.redundant_labels = "Keep" THEN {} ELSE used_labels(lines)
    /\ empty_line = FALSE /\ dix = 0 /\ output = <<>> /\ dpc = "dump"
    /\ ParseIdle
    /\ PickIdle
    /\ six = 0 /\ sec_start = 0 /\ item = NoItem
    /\ names = <<>> /\ res = {} /\ opened = {} /\ ipc = "idle"
    /\ self_range = [start |-> 0, end |-> 0]
    /\ pending = <<>> /\ processed = {} /\ out = <<>>
    /\ cpend = <<>> /\ seen = {} /\ xres = <<>> /\ cpc = "idle"

NextDump == DumpFile \/ DumpLoc \/ DumpLabel \/ DumpOther \/ DumpEnd

SpecDump == InitDump /\ [][NextDump]_vars

-----------------------------------------------------------------------------
(* claims about the labels dump_range prints *)

\* the identifier occurs in the text
Mentions(text, id) ==
    \E i \in 1..Len(text) : SubSeq(text, i, i + Len(id) - 1) = id

\* the label at index ix of the slice is referenced in the text of another
\* statement of the slice
Referenced(ix) ==
    \E j \in 0..(Len(lines) - 1) :
        /\ j # ix
        /\ UsedText(lines[j + 1]) # None
        /\ Mentions(UsedText(lines[j + 1]), lines[ix + 1].a)

IsLocalOrTemp(ix) ==
    lines[ix + 1].t = "Label" /\ lines[ix + 1].b \in {Local, Temp}

\* a Local or Temp label that is not first and that nothing refers to
Redundant(ix) ==
    ix > 0 /\ ix < Len(lines) /\ IsLocalOrTemp(ix) /\ ~Referenced(ix)

\* what statement ix of the slice put on the output
EntriesOf(ix) == SelectSeq(output, LAMBDA e : e.ix = ix)

\* C8 as stated: a redundant label prints nothing under Strip and is
\* printed under Keep
C8_StripNothingKeepLabel ==
    dpc = "done" =>
        \A ix \in 1..(Len(lines) - 1) :
            Redundant(ix) =>
                /\ fmt.redundant_labels = "Strip" => EntriesOf(ix) = <<>>
                /\ fmt.redundant_labels = "Keep"
                       => \E k \in 1..Len(EntriesOf(ix)) : EntriesOf(ix)[k].k = "label"

\* C8: for a redundant label dump_range prints, under Strip, nothing but
\* the debug echo of the statement that verbosity above 3 gives every
\* statement, and under Keep that echo and the label
C8_StripEchoKeepLabel ==
    dpc = "done" =>
        \A ix \in 1..(Len(lines) - 1) :
            Redundant(ix) =>
                /\ fmt.redundant_labels = "Strip"
                       => EntriesOf(ix) = (IF fmt.verbosity > 3
                                           THEN <<[k |-> "debug", ix |-> ix]>>
                                           ELSE <<>>)
                /\ fmt.redundant_labels = "Keep"
                       => EntriesOf(ix) = (IF fmt.verbosity > 3
                                           THEN <<[k |-> "debug", ix |-> ix]>>
                                           ELSE <<>>)
                                          \o <<[k |-> "label", ix |-> ix]>>

\* a slice was dumped under Strip with -vvvv: a redundant label left its
\* echo only, and the statement before it was printed
C8_Witness ==
    /\ dpc = "done"
    /\ fmt.redundant_labels = "Strip" /\ fmt.verbosity > 3
    /\ \E ix \in 1..(Len(lines) - 1) :
           /\ Redundant(ix)
           /\ EntriesOf(ix) = <<[k |-> "debug", ix |-> ix]>>
           /\ [k |-> "stmt", ix |-> ix - 1] \in {output[k] : k \in 1..Len(output)}

\* the statements a..b of the slice are a maximal run of redundant labels
MaximalRun(a, b) ==
    /\ a <= b
    /\ \A ix \in a..b : Redundant(ix)
    /\ ~Redundant(a - 1)
    /\ ~Redundant(b + 1)

\* the number of blank lines the statements a..b put on the output
BlankCount(a, b) ==
    Cardinality({k \in 1..Len(output) :
                    output[k].k = "blank" /\ output[k].ix \in a..b})

C10_FirstAndReferencedPrinted ==
    dpc = "done" =>
        /\ (Len(lines) > 0 /\ lines[1].t = "Label")
               => \E k \in 1..Len(output) :
                      output[k].ix = 0 /\ output[k].k \in {"label", "stmt"}
        /\ \A ix \in 0..(Len(lines) - 1) :
               (IsLocalOrTemp(ix) /\ Referenced(ix))
                   => [k |-> "label", ix |-> ix] \in {output[k] : k \in 1..Len(output)}

-----------------------------------------------------------------------------
(* claims about the .loc directives dump_range acts on *)

\* the file and the line a .loc directive names
LocPair(s) == <<NumVal(s.a[1]), NumVal(s.a[2])>>

RECURSIVE LastActed(_)
\* the (file, line) of the last .loc directive among the first n statements
\* of the slice that has a line other than 0 and differs from the one
\* before it that had; <<0, 0>> when there is none
LastActed(n) ==
    IF n = 0 THEN <<0, 0>>
    ELSE IF /\ lines[n].t = "Loc"
            /\ LocPair(lines[n])[2] # 0
            /\ LocPair(lines[n]) # LastActed(n - 1)
         THEN LocPair(lines[n])
         ELSE LastActed(n - 1)

\* statement ix of the slice is a .loc directive that is to be acted on
ShouldAct(ix) ==
    /\ lines[ix + 1].t = "Loc"
    /\ LocPair(lines[ix + 1])[2] # 0
    /\ LocPair(lines[ix + 1]) # LastActed(ix)

\* the number of statements the loop has entered
Entered == IF dpc = "panic" THEN dix + 1 ELSE dix

HasEntry(k, ix) == [k |-> k, ix |-> ix] \in {output[j] : j \in 1..Len(output)}

\* C11: with --rust, dump_range acts on a .loc directive (looks its file
\* up and records it as prev_loc) exactly when its line is not 0 and its
\* (file, line) differs from that of the last directive acted on, at first
\* (0, 0); the column and the extra text play no part
C11_LocActedIff ==
    fmt.rust =>
        /\ <<prev_loc.file, prev_loc.line>> = LastActed(Entered)
        /\ dpc = "panic" => ShouldAct(dix)
        /\ \A ix \in 0..(Entered - 1) :
               ( /\ lines[ix + 1].t = "Loc"
                 /\ LocPair(lines[ix + 1])[1] \in DOMAIN files
                 /\ LET f == files[LocPair(lines[ix + 1])[1]]
                    IN  f.shown \/ ~f.src )
                   => (HasEntry("pos", ix) <=> ShouldAct(ix))

\* a slice was dumped in which a .loc directive was acted on, a later one
\* with the same file and line and another column and extra text was
\* not, and a third one with another line was
C11_Witness ==
    /\ dpc = "done" /\ fmt.rust
    /\ \E i \in 0..(Len(lines) - 1) : \E j \in (i + 1)..(Len(lines) - 1) :
       \E k \in (j + 1)..(Len(lines) - 1) :
           /\ lines[i + 1].t = "Loc" /\ lines[j + 1].t = "Loc" /\ lines[k + 1].t = "Loc"
           /\ LocPair(lines[i + 1]) = LocPair(lines[j + 1])
           /\ lines[i + 1].b # lines[j + 1].b
           /\ HasEntry("pos", i) /\ ~HasEntry("pos", j) /\ HasEntry("pos", k)
           /\ <<prev_loc.file, prev_loc.line>> = LocPair(lines[k + 1])


\* statement ix of the slice is a .loc directive the loop has entered
EnteredLoc(ix) == ix < Entered /\ lines[ix + 1].t = "Loc"

\* C12 as stated: without --rust a .loc directive produces no output and
\* cannot make the dump panic, whatever its file
C12_LocSilent ==
    ~fmt.rust =>
        /\ dpc # "panic"
        /\ \A ix \in 0..(Len(lines) - 1) : EnteredLoc(ix) => EntriesOf(ix) = <<>>

\* C12: without --rust dump_range does not look a .loc directive up, so it
\* cannot panic on a file that is not in the table, and prints nothing for
\* the directive but the debug echo that verbosity above 3 gives every
\* statement
C12_LocEchoOnly ==
    ~fmt.rust =>
        /\ dpc # "panic"
        /\ prev_loc = NoLoc
        /\ \A ix \in 0..(Len(lines) - 1) :
               EnteredLoc(ix) =>
                   EntriesOf(ix) = (IF fmt.verbosity > 3
                                    THEN <<[k |-> "debug", ix |-> ix]>>
                                    ELSE <<>>)

\* a slice with a .loc directive of a file that is not in the table was
\* dumped to its end without --rust, at verbosity 4
C12_Witness ==
    /\ dpc = "done" /\ ~fmt.rust /\ fmt.verbosity > 3
    /\ \E ix \in 0..(Len(lines) - 1) :
           /\ EnteredLoc(ix)
           /\ LocPair(lines[ix + 1])[1] \notin DOMAIN files
           /\ LocPair(lines[ix + 1])[2] # 0
           /\ EntriesOf(ix) = <<[k |-> "debug", ix |-> ix]>>
    /\ \E ix \in 0..(Len(lines) - 1) : HasEntry("stmt", ix)

\* C13: with --rust a .loc directive whose file is not in the table, or is
\* there without a source, makes dump_range print the file:line annotation
\* and go on; the dump does not panic
C13_DegradedNoPanic ==
    fmt.rust =>
        /\ dpc # "panic"
        /\ \A ix \in 0..(Len(lines) - 1) :
               ( /\ EnteredLoc(ix) /\ ShouldAct(ix)
                 /\ \/ LocPair(lines[ix + 1])[1] \notin DOMAIN files
                    \/ ~files[LocPair(lines[ix + 1])[1]].src )
                   => HasEntry("pos", ix)

-----------------------------------------------------------------------------
(* lib.rs get_dump_range *)

\* the characters of the names items have and of the texts searched for
Chars(a) ==
    CASE a = "foo" -> <<"f", "o", "o">>
      [] a = "foo2" -> <<"f", "o", "o", "2">>
      [] a = "bar" -> <<"b", "a", "r">>
      [] a = "baz" -> <<"b", "a", "z">>
      [] a = "ba" -> <<"b", "a">>
      [] a = "main" -> <<"m", "a", "i", "n">>
      [] a = "_main" -> <<"_", "m", "a", "i", "n">>
      [] a = "notrust" -> <<"n", "o", "t", "r", "u", "s", "t">>
      [] a = "_notrust" -> <<"_", "n", "o", "t", "r", "u", "s", "t">>
      [] a = "qux" -> <<"q", "u", "x">>
      [] a = "GCC_except_table0" ->
             <<"G", "C", "C", "_", "e", "x", "c", "e", "p", "t", "_",
               "t", "a", "b", "l", "e", "0">>

\* the characters of a text
CharsOf(s) == Concat([i \in 1..Len(s) |-> Chars(s[i])])

\* str::contains
contains(s, pat) ==
    \E i \in 1..(Len(CharsOf(s)) + 1) :
        /\ i + Len(CharsOf(pat)) - 1 <= Len(CharsOf(s))
        /\ SubSeq(CharsOf(s), i, i + Len(CharsOf(pat)) - 1) = CharsOf(pat)

\* the n-th entry (from 0) of a set of map entries in the order of the map
NthEntry(m, n) ==
    CHOOSE e \in m : Cardinality({o \in m : ItemLess(o.item, e.item)}) = n

\* items.iter().filter(|(item, _range)| item.name.contains(&function))
filtered(m, function) == {e \in m : contains(e.item.name, function)}

Returned(r) == [gpc |-> "returned", picked |-> r, printed |-> <<>>]

\* std::process::exit(1) after a message
Exited == [gpc |-> "exit1", picked |-> NoRange, printed |-> <<>>]

\* the field of an item that suggest_name lists
entry(it, name_display) ==
    IF name_display = "Full" THEN it.hashed
    ELSE IF name_display = "Short" THEN it.name
    ELSE it.mangled_name

\* the keys of the BTreeMap `names`
SuggestKeys(its, name_display) == {entry(it, name_display) : it \in its}

\* the rows suggest_name prints, in the order of the map `names`: a key
\* and the number of items under the keys before it (ix += lens.len())
suggest_name(name_display, its) ==
    [ n \in 1..Cardinality(SuggestKeys(its, name_display)) |->
        [ k |-> "name",
          name |-> CHOOSE key \in SuggestKeys(its, name_display) :
                      Cardinality({o \in SuggestKeys(its, name_display) :
                                      StrRank(o) < StrRank(key)}) = n - 1,
          ix |-> Cardinality(
                   {it \in its :
                      Cardinality({o \in SuggestKeys(its, name_display) :
                          StrRank(o) < StrRank(entry(it, name_display))}) < n - 1}) ] ]

\* std::process::exit(1) after the list of suggest_name
Suggested(name_display, its) ==
    [gpc |-> "exit1", picked |-> NoRange, printed |-> suggest_name(name_display, its)]

\* the arm of ToDump::ByIndex
ByIndexArm(m, value) ==
    IF value < Cardinality(m) THEN Returned(NthEntry(m, value).range)
    ELSE Exited

\* nth: None
NoNth == -1

\* the arm of ToDump::Function
FunctionArm(f, nth, name_display) ==
    IF nth = NoNth /\ Cardinality(f) = 1 THEN Returned((CHOOSE e \in f : TRUE).range)
    ELSE IF nth # NoNth /\ nth < Cardinality(f) THEN Returned(NthEntry(f, nth).range)
    ELSE IF nth # NoNth \/ f = {} THEN Exited
    ELSE Suggested(name_display, {e.item : e \in f})

\* get_dump_range(goal, fmt, items)
get_dump_range(g, f, m) ==
    IF Cardinality(m) = 1 THEN Returned((CHOOSE e \in m : TRUE).range)
    ELSE IF g.t = "Everything" THEN Returned(NoRange)
    ELSE IF g.t = "ByIndex" THEN ByIndexArm(m, g.value)
    ELSE IF g.t = "Function"
    THEN FunctionArm(filtered(m, g.function), g.nth, f.name_display)
    ELSE Suggested(f.name_display, {e.item : e \in m})

\* the largest index asked for
MaxNth == 2

\* the texts searched for
Searches == {<<"foo">>, <<"ba">>, <<"main">>, <<"qux">>, <<>>}

\* ToDump
Goals ==
    {[t |-> "Everything"], [t |-> "Unspecified"]}
    \cup {[t |-> "ByIndex", value |-> v] : v \in 0..MaxNth}
    \cup {[t |-> "Function", function |-> f, nth |-> n] :
            f \in Searches, n \in {NoNth} \cup (0..MaxNth)}

\* get_dump_range on the items of the stream
GetDumpRange ==
    /\ ipc = "done" /\ gpc = "wait"
    /\ \E g \in Goals : \E r \in {get_dump_range(g, fmt, res)} :
           /\ goal' = g
           /\ picked' = r.picked
           /\ gpc' = r.gpc
           /\ output' = output \o r.printed
    /\ UNCHANGED <<dtext, shown, mpc>>
    /\ UNCHANGED locVars
    /\ UNCHANGED <<files, prev_loc, used, empty_line, dix, dpc>>
    /\ UNCHANGED <<parseVars, itemVars, ctxVars>>

\* the formats get_dump_range is called with
PickFormats == {[DefaultFormat EXCEPT !.name_display = d] : d \in NameDisplays}

\* two functions of which the name of one begins with the name of the
\* other, and a function that is not mangled before one that is
SuggestStreams ==
    { << Stmt("SectionStart", <<".", "text", ".", "foo">>, None),
         LabelStmt(<<"_ZN3foo17h1E">>), InstrStmt, LabelStmt(<<".Lfunc_end0">>),
         Stmt("SectionStart", <<".", "text", ".", "foo2">>, None),
         LabelStmt(<<"_ZN4foo217h5E">>), InstrStmt, LabelStmt(<<".Lfunc_end0">>) >>,
      << Stmt("SectionStart", <<".", "text", ".", "_main">>, None),
         LabelStmt(<<"_main">>), InstrStmt, LabelStmt(<<".Lfunc_end0">>),
         Stmt("SectionStart", <<".", "text", ".", "bar">>, None),
         LabelStmt(<<"_ZN3bar17h3E">>), InstrStmt, LabelStmt(<<".Lfunc_end0">>) >> }

InitPick ==
    /\ lines \in ItemStreams \cup SuggestStreams
    /\ six = 0 /\ sec_start = 0 /\ item = NoItem
    /\ names = [n \in ShortNames |-> 0]
    /\ res = {} /\ opened = {} /\ ipc = "scan"
    /\ ParseIdle
    /\ fmt \in PickFormats /\ self_range = [start |-> 0, end |-> 0]
    /\ pending = <<>> /\ processed = {} /\ out = <<>>
    /\ cpend = <<>> /\ seen = {} /\ xres = <<>> /\ cpc = "idle"
    /\ DumpIdle
    /\ goal = [t |-> "Everything"] /\ picked = NoRange /\ gpc = "wait"
    /\ dtext = <<>> /\ shown = <<>> /\ mpc = "idle"
    /\ LocateIdle

NextPick == ScanLine \/ MergedPass \/ GetDumpRange

SpecPick == InitPick /\ [][NextPick]_vars

\* C14: for a goal Function{function, nth} get_dump_range returns only the
\* range of an item whose name contains `function`: the only such item
\* when nth is absent, the nth such item in the order of the map when nth
\* is given; in every other case it exits with status 1
C14_PicksMatching ==
    (gpc \in {"returned", "exit1"} /\ goal.t = "Function") =>
        LET match == {e \in res : contains(e.item.name, goal.function)}
        IN  IF goal.nth = NoNth /\ Cardinality(match) = 1
            THEN gpc = "returned" /\ \E e \in match : picked = e.range
            ELSE IF goal.nth # NoNth /\ goal.nth < Cardinality(match)
            THEN /\ gpc = "returned"
                 /\ \E e \in match :
                        /\ picked = e.range
                        /\ Cardinality({o \in match : ItemLess(o.item, e.item)}) = goal.nth
            ELSE gpc = "exit1"

-----------------------------------------------------------------------------
(* demangle.rs label_kind on the labels Label::parse makes, and contents *)

\* the names that start with two underscores
DoubleUnder == {"__ZN3foo17h1E"}

\* cap[1] of GLOBAL_LABELS_REGEX for the match cap[0]: the optional first
\* underscore is outside the group
Cap1(cap0) == IF Head(cap0) \in DoubleUnder THEN StripFirst(cap0) ELSE cap0

\* Demangler::replace_append
replace_append(cap0, display) ==
    IF try_demangle(Cap1(cap0)) # NoDem
    THEN IF display = "Full" THEN try_demangle(Cap1(cap0)).hashed
         ELSE IF display = "Short" THEN try_demangle(Cap1(cap0)).name
         ELSE Cap1(cap0)
    ELSE cap0

RECURSIVE ReplaceAllFrom(_, _, _)
\* Regex::replace_all from atom i on: the matches do not overlap
ReplaceAllFrom(s, i, display) ==
    IF i > Len(s) THEN <<>>
    ELSE IF GlobalAt(s, i)
    THEN replace_append(GlobalMatch(s, i), display)
         \o ReplaceAllFrom(s, i + Len(GlobalMatch(s, i)), display)
    ELSE <<s[i]>> \o ReplaceAllFrom(s, i + 1, display)

\* contents: GLOBAL_LABELS.replace_all(input, Demangler { display })
contents(s, display) == ReplaceAllFrom(s, 1, display)

\* the longest identifier of a label
MaxIdLen == 3

\* the longest text given to contents
MaxText == 3

IdAtoms == {".L1", "LBB0_1", "Ltmp1", "_main", "__ZN3foo17h1E", "foo", ".", "1"}

\* identifiers: a "." is not followed by an atom that starts with "L", so
\* that the atoms of an identifier are the pieces the patterns see
LabelIds ==
    { id \in SeqsUpTo(IdAtoms, MaxIdLen) :
        /\ id # <<>>
        /\ \A i \in 1..(Len(id) - 1) :
               id[i] = "." => id[i + 1] \notin {"LBB0_1", "Ltmp1"} }

\* a label line, with and without the annotation of the compiler
LabelLines ==
    {id \o <<":">> : id \in LabelIds}
    \cup {id \o <<":", " ", "#", " ", "@", "foo">> : id \in LabelIds}

TextAtoms == {"_ZN3foo17h1E", "__ZN3foo17h1E", "_main", "_ZN3bar17h3E",
              "foo", "[", "+", " ", "."}

ContentTexts == SeqsUpTo(TextAtoms, MaxText)

\* Label::parse on a line
LabelStep ==
    /\ mpc = "ready"
    /\ \E r \in {Label_parse(dtext)} : shown' = r
    /\ mpc' = "label"
    /\ UNCHANGED <<dtext, goal, picked, gpc>>
    /\ UNCHANGED locVars
    /\ UNCHANGED <<parseVars, itemVars, ctxVars, dumpVars>>

\* contents on a text
ContentsStep ==
    /\ mpc = "ready"
    /\ \E d \in NameDisplays : shown' = [display |-> d, out |-> contents(dtext, d)]
    /\ mpc' = "contents"
    /\ UNCHANGED <<dtext, goal, picked, gpc>>
    /\ UNCHANGED locVars
    /\ UNCHANGED <<parseVars, itemVars, ctxVars, dumpVars>>

InitDemangle ==
    /\ dtext \in LabelLines \cup ContentTexts
    /\ shown = <<>> /\ mpc = "ready"
    /\ LocateIdle
    /\ goal = [t |-> "Everything"] /\ picked = NoRange /\ gpc = "idle"
    /\ ParseIdle
    /\ ItemsIdle
    /\ CtxIdle
    /\ files = NoFiles /\ prev_loc = NoLoc /\ used = {}
    /\ empty_line = FALSE /\ dix = 0 /\ output = <<>> /\ dpc = "idle"

NextDemangle == LabelStep \/ ContentsStep

SpecDemangle == InitDemangle /\ [][NextDemangle]_vars

\* the patterns of LABEL_KINDS, by index, that match an identifier
KindMatches(id) ==
    {k \in 0..2 :
        \/ k = 0 /\ \E i \in 1..Len(id) : LocalAt(id, i)
        \/ k = 1 /\ \E i \in 1..Len(id) : GlobalAt(id, i)
        \/ k = 2 /\ \E i \in 1..Len(id) : TempAt(id, i)}

\* the kind of the first pattern that matches
FirstKind(id) ==
    IF KindMatches(id) = {} THEN Unknown
    ELSE <<Local, Global, Temp>>[MinOf(KindMatches(id)) + 1]

\* the identifier of a label line
IdOf(line) == Take(line, PrefixLen(good_for_label, line))

\* C15: label_kind gives the kind of the first pattern that matches in the
\* order local, global, temporary, and Unknown when none does; Label::parse
\* gives a label the kind of its identifier alone and drops a trailing
\* annotation ` # @name`
C15_FirstPatternWins ==
    (mpc = "label" /\ dtext \in LabelLines) =>
        /\ shown.ok
        /\ shown.rest = <<>>
        /\ shown.val = Stmt("Label", IdOf(dtext), FirstKind(IdOf(dtext)))
        /\ label_kind(IdOf(dtext)) = FirstKind(IdOf(dtext))

\* a label with an annotation whose identifier matches the local and the
\* global pattern was parsed as a Local label
C15_Witness ==
    /\ mpc = "label" /\ dtext \in LabelLines
    /\ Len(dtext) > Len(IdOf(dtext)) + 1
    /\ {0, 1} \subseteq KindMatches(IdOf(dtext))
    /\ shown.ok /\ shown.val.b = Local /\ shown.val.a = IdOf(dtext)

\* C16: with name display Mangled and without colour, contents returns its
\* input unchanged, names with two leading underscores included
C16_MangledUnchanged ==
    (mpc = "contents" /\ shown.display = "Mangled") => shown.out = dtext

-----------------------------------------------------------------------------
(* claims about the items find_items closes at the end of a function *)

\* a .cfi_endproc directive, or a label whose identifier starts with
\* .Lfunc_end or Lfunc_end
IsEndMarker(s) ==
    \/ s.t = "Generic" /\ s.a = <<"cfi_endproc">>
    \/ s.t = "Label" /\ s.a # <<>> /\ Head(s.a) \in {".Lfunc_end0", "Lfunc_end0"}

\* the scan is at a statement with an item open
ScanAtOpen == ipc = "scan" /\ six < Len(lines) /\ item # NoItem

\* the index of the label that opened the open item
OpenLabelIx == MaxOf({o.ix : o \in opened})

\* C17: a .cfi_endproc directive and a function-end label both close the
\* open item and insert it into the result map
C17_EitherMarkerCloses ==
    [][ (ScanAtOpen /\ IsEndMarker(lines[six + 1]))
            => /\ item' = NoItem
               /\ \E e \in res' :
                      /\ e.item.mangled_name = item.mangled_name
                      /\ e.range.end = six ]_vars

\* C18 as stated: an end-of-function marker at e closes the open item with
\* the range sec_start..e, and len and non_blank_len are the number of
\* statements of that range
C18_LenIsRangeLen ==
    [][ (ScanAtOpen /\ is_end_of_fn(lines[six + 1]))
            => \E e \in res' :
                   /\ e.item.mangled_name = item.mangled_name
                   /\ e.range = URange(sec_start, six)
                   /\ e.item.len = RangeLen(e.range)
                   /\ e.item.non_blank_len = RangeLen(e.range) ]_vars

\* C18: an end-of-function marker at e closes the open item with the range
\* sec_start..e, and len and non_blank_len are e minus the index of the
\* label that opened the item
C18_LenFromLabel ==
    [][ (ScanAtOpen /\ is_end_of_fn(lines[six + 1]))
            => \E e \in res' :
                   /\ e.item.mangled_name = item.mangled_name
                   /\ e.range = URange(sec_start, six)
                   /\ e.item.len = six - OpenLabelIx
                   /\ e.item.non_blank_len = six - OpenLabelIx
                   /\ lines[OpenLabelIx + 1].t = "Label"
                   /\ lines[OpenLabelIx + 1].a = item.mangled_name ]_vars

\* an item was closed whose section starts before its label: its len is
\* not the length of its range
C18_Witness ==
    \E e \in res :
        /\ IsLabelItem(e)
        /\ e.range.start < LabelIx(e)
        /\ e.item.len = e.range.end - LabelIx(e)
        /\ e.item.len < RangeLen(e.range)

\* C19: every range of the map find_items returns is well formed for the
\* stream: start <= end <= number of statements
C19_RangesWellFormed ==
    ipc = "done" =>
        \A e \in res :
            /\ 0 <= e.range.start
            /\ e.range.start <= e.range.end
            /\ e.range.end <= Len(lines)

\* C20: the range of an item opened at a label and closed at an
\* end-of-function marker contains the index of that label
C20_RangeHoldsLabel ==
    [][ (ScanAtOpen /\ is_end_of_fn(lines[six + 1]))
            => \E e \in res' :
                   /\ e.item.mangled_name = item.mangled_name
                   /\ e.range.end = six
                   /\ e.range.start <= OpenLabelIx
                   /\ OpenLabelIx < e.range.end ]_vars


\* C21: no range of a function item contains the label that defines
\* another function item
C21_RangesApart ==
    ipc = "done" =>
        \A e1 \in res : \A e2 \in res :
            (IsLabelItem(e1) /\ IsLabelItem(e2) /\ LabelIx(e1) # LabelIx(e2))
                => ~(e2.range.start <= LabelIx(e1) /\ LabelIx(e1) < e2.range.end)

\* the scan is at a statement
ScanAt == ipc = "scan" /\ six < Len(lines)

\* C22: a section-start directive with an item open leaves section_start
\* and the item as they are; with no item open it sets section_start to
\* its index
C22_SectionStartFrame ==
    [][ (ScanAt /\ lines[six + 1].t = "SectionStart")
            => /\ item' = item
               /\ res' = res
               /\ sec_start' = (IF item # NoItem THEN sec_start ELSE six) ]_vars

\* the scan has just passed a section-start directive with an item open,
\* and the section still starts before that item's label
C22_Witness ==
    /\ ipc = "scan" /\ six >= 2
    /\ lines[six].t = "SectionStart"
    /\ item # NoItem
    /\ sec_start < six - 1
    /\ \E o \in opened : o.ix < six - 1 /\ sec_start <= o.ix

\* C23: a .globl directive at index i moves section_start to i exactly
\* when i > section_start + 3; otherwise it changes neither section_start
\* nor the open item
C23_DeepGlobalOnly ==
    [][ (ScanAt /\ lines[six + 1].t = "Global")
            => /\ item' = item
               /\ res' = res
               /\ sec_start' = (IF six > sec_start + 3 THEN six ELSE sec_start) ]_vars

\* the scan has just passed a .globl directive that moved the section
\* start, after one at index 3 of the first section, which did not
C23_Witness ==
    /\ ipc = "scan" /\ six - 1 > 3
    /\ lines[six].t = "Global"
    /\ sec_start = six - 1
    /\ lines[4].t = "Global"
    /\ \A k \in 1..(six - 1) : k # 4 => lines[k].t \notin {"Global", "SectionStart"}


\* C24: with depth >= 1 the result of get_context_for holds the range of
\* every item, other than one with the chosen range, whose mangled name a
\* statement of the chosen range mentions, also when one statement
\* mentions several
C24_DirectComplete ==
    (cpc \in {"constants", "done"} /\ fmt.context >= 1) =>
        \A e \in res :
            ( /\ e.range # self_range
              /\ \E i \in self_range.start..(self_range.end - 1) :
                     e.item.mangled_name \in AllRefs(lines[i + 1]) )
                => \E k \in 1..Len(out) : out[k] = e.range


-----------------------------------------------------------------------------
(* claims about the scan for constants *)

\* the range of a constant that extra_context returned
ConstReturned(r) ==
    /\ r \in seen \ {self_range}
    /\ \E k \in 1..Len(xres) : xres[k] = r

\* the labels that the data of a statement names
DataLabels(s) ==
    IF s.t = "Data" /\ s.b # None
    THEN {local_labels(s.b)[j] : j \in 1..Len(local_labels(s.b))}
    ELSE {}

\* the constants that the data of range r names
DataRefs(r) ==
    { scan_constant(n, lines) :
        n \in UNION {DataLabels(lines[i + 1]) : i \in r.start..(r.end - 1)} }
    \ {NoRange}

\* C25: the scan for constants is transitive: when the range of a constant
\* is in the result of extra_context and its data names the label of another
\* constant, the range of that constant is in the result as well
C25_ConstantsTransitive ==
    (cpc = "done" /\ fmt.include_constants /\ ~fmt.simplify)
        => \A r \in seen :
               ConstReturned(r)
                   => \A c \in DataRefs(r) :
                          \/ (self_range.start <= c.start /\ c.end <= self_range.end)
                          \/ \E k \in 1..Len(xres) : xres[k] = c

\* C26: extra_context returns no range of a constant that lies inside the
\* chosen range, fully_contains(a, b) being a.start <= b.start and
\* b.end <= a.end
C26_NoConstantInside ==
    (cpc = "done" /\ fmt.include_constants)
        => \A r \in seen :
               ConstReturned(r)
                   => ~(self_range.start <= r.start /\ r.end <= self_range.end)


-----------------------------------------------------------------------------
(* lib.rs dump_function for Asm: find_items, get_dump_range, extra_context
   and dump_range one after the other; stmts is the whole file, lines the
   slice that dump_range is given *)

\* dump_range starts on a slice of the file
DumpStart(ls) ==
    /\ lines' = ls
    /\ prev_loc' = NoLoc
    /\ used' = IF fmt.redundant_labels = "Keep" THEN {} ELSE used_labels(ls)
    /\ empty_line' = FALSE /\ dix' = 0
    /\ dpc' = "dump"

\* &lines[range]
SliceOf(r) == SubSeq(stmts, r.start + 1, r.end)

\* Some(range): extra_context is called with the range that was picked
FnContext ==
    /\ gpc = "returned" /\ picked # NoRange /\ cpc = "wait"
    /\ self_range' = picked
    /\ pending' = IF fmt.context = 0 THEN <<>>
                  ELSE <<[range |-> picked, depth |-> fmt.context]>>
    /\ processed' = {} /\ out' = <<>>
    /\ cpc' = "context"
    /\ UNCHANGED <<fmt, cpend, seen, xres>>
    /\ UNCHANGED notCtx

\* Some(range): after extra_context the range is dumped
FnDump ==
    /\ gpc = "returned" /\ picked # NoRange /\ cpc = "done" /\ dpc = "idle"
    /\ IF SliceOk(picked)
       THEN DumpStart(SliceOf(picked))
       ELSE dpc' = "panic" /\ UNCHANGED <<lines, prev_loc, used, empty_line, dix>>
    /\ UNCHANGED <<files, output>>
    /\ UNCHANGED <<six, sec_start, item, names, res, opened, ipc>>
    /\ UNCHANGED <<parseVars, ctxVars, pickVars, demVars, locVars>>

\* None: the whole file is dumped, extra_context is not called
FnDumpAll ==
    /\ gpc = "returned" /\ picked = NoRange /\ dpc = "idle"
    /\ DumpStart(stmts)
    /\ UNCHANGED <<files, output>>
    /\ UNCHANGED <<six, sec_start, item, names, res, opened, ipc>>
    /\ UNCHANGED <<parseVars, ctxVars, pickVars, demVars, locVars>>

\* for range in context: the next range of the additional context is dumped
FnNext ==
    /\ dpc = "done" /\ xres # <<>>
    /\ IF Head(xres).start <= Head(xres).end /\ Head(xres).end <= Len(stmts)
       THEN DumpStart(SliceOf(Head(xres)))
       ELSE dpc' = "panic" /\ UNCHANGED <<lines, prev_loc, used, empty_line, dix>>
    /\ output' = output \o Printed("context", 0)
    /\ xres' = Tail(xres)
    /\ UNCHANGED files
    /\ UNCHANGED <<six, sec_start, item, names, res, opened, ipc>>
    /\ UNCHANGED <<fmt, self_range, pending, processed, out, cpend, seen, cpc>>
    /\ UNCHANGED <<parseVars, pickVars, demVars, locVars>>

\* a function with a .loc, its instruction with the arguments args
FnLoc(sec, label, line, args) ==
    << Stmt("SectionStart", <<".", "text", ".">> \o sec, None), LabelStmt(label),
       LocStmt(<<"1">>, line),
       Stmt("Instruction", <<"mov">>, args), LabelStmt(<<".Lfunc_end0">>) >>

\* files with a .file directive and functions with .loc directives: two
\* functions of which the first refers to the second and the second to a
\* constant, one function alone, and two functions that refer to nothing
FnFiles ==
    { <<FileStmt>> \o FnLoc(<<"foo">>, <<"_ZN3foo17h1E">>, <<"5">>, <<"_ZN3bar17h3E">>)
         \o FnLoc(<<"bar">>, <<"_ZN3bar17h3E">>, <<"1">>, <<".L1">>)
         \o <<LabelStmt(<<".L1">>), DataStmt>>,
      <<FileStmt>> \o FnLoc(<<"foo">>, <<"_ZN3foo17h1E">>, <<"5">>, None),
      <<FileStmt>> \o FnLoc(<<"foo">>, <<"_ZN3foo17h1E">>, <<"5">>, None)
         \o FnLoc(<<"bar">>, <<"_ZN3bar17h3E">>, <<"0">>, None) }

FnFormats ==
    { [DefaultFormat EXCEPT !.context = c, !.include_constants = k, !.rust = r] :
        c \in 0..1, k \in BOOLEAN, r \in BOOLEAN }

InitFn ==
    /\ lines \in FnFiles
    /\ stmts = lines /\ input = <<>> /\ rest = <<>> /\ pstate = "idle"
    /\ six = 0 /\ sec_start = 0 /\ item = NoItem
    /\ names = [n \in ShortNames |-> 0]
    /\ res = {} /\ opened = {} /\ ipc = "scan"
    /\ fmt \in FnFormats /\ self_range = [start |-> 0, end |-> 0]
    /\ pending = <<>> /\ processed = {} /\ out = <<>>
    /\ cpend = <<>> /\ seen = {} /\ xres = <<>> /\ cpc = "wait"
    /\ DumpIdle
    /\ goal = [t |-> "Everything"] /\ picked = NoRange /\ gpc = "wait"
    /\ dtext = <<>> /\ shown = <<>> /\ mpc = "idle"
    /\ LocateIdle

NextFn ==
    \/ ScanLine \/ MergedPass \/ GetDumpRange
    \/ FnContext \/ CtxPop \/ CtxReturn \/ ConstPop \/ ExtraReturn
    \/ FnDump \/ FnDumpAll \/ FnNext
    \/ DumpFile \/ DumpLoc \/ DumpLabel \/ DumpOther \/ DumpEnd

SpecFn == InitFn /\ [][NextFn]_vars

\* C27: when dump_function dumps with --rust, the table of files has an
\* entry for every .file directive of the file by the time dump_range
\* comes to a .loc directive, whatever the goal
C27_FilesLoadedBeforeLoc ==
    (dpc = "dump" /\ fmt.rust /\ dix < Len(lines) /\ lines[dix + 1].t = "Loc")
        => FileIds(stmts) \subseteq DOMAIN files


-----------------------------------------------------------------------------
(* claims about --simplify in dump_range *)

\* the statements that simplify leaves out, as the specification lists
\* them: every line that was not parsed and every directive, except .set
\* and the start of a section whose name begins with .data or .rodata
BoringAsStated(s) ==
    \/ s.t = "Dunno"
    \/ /\ IsDirective(s)
       /\ s.t # "SetValue"
       /\ ~(s.t = "SectionStart"
            /\ (HasTag(s.a, <<".", "data">>) \/ HasTag(s.a, <<".", "rodata">>)))

\* the statement is neither a .file, a .loc nor a Local or Temp label
PlainStatement(s) ==
    /\ s.t \notin {"File", "Loc"}
    /\ ~(s.t = "Label" /\ s.b \in {Local, Temp})

\* C28: of the statements that are neither .file, .loc nor Local or Temp
\* labels dump_range prints every one without --simplify, and with
\* --simplify every one but those that are boring: instructions, blank
\* lines, other labels, .set and the .data and .rodata sections are printed
\* either way
C28_SimplifySkipsBoring ==
    \A ix \in 0..(dix - 1) :
        (ix < Len(lines) /\ PlainStatement(lines[ix + 1])) =>
            (HasEntry("stmt", ix)
                <=> ~(fmt.simplify /\ BoringAsStated(lines[ix + 1])))

\* a slice was dumped with --simplify: its .globl and its unparsed line are
\* left out, its .set, its .data section and its instruction are printed
C28_Witness ==
    /\ dpc = "done" /\ fmt.simplify /\ Len(lines) = 7
    /\ lines[2].t = "SetValue" /\ HasEntry("stmt", 1)
    /\ lines[3].t = "SectionStart" /\ HasEntry("stmt", 2)
    /\ lines[4].t = "Dunno" /\ ~HasEntry("stmt", 3)
    /\ lines[5].t = "Global" /\ ~HasEntry("stmt", 4)
    /\ lines[1].t = "Instruction" /\ HasEntry("stmt", 0)


-----------------------------------------------------------------------------
(* claims about the list of suggest_name *)

\* C29: a number that suggest_name prints next to a name for the goal
\* Unspecified, given back as ByIndex, makes get_dump_range return the
\* range of an item that is listed under that name, in each name display
C29_NumberSelectsName ==
    (gpc = "exit1" /\ goal.t = "Unspecified") =>
        \A j \in 1..Len(output) :
            \E r \in {get_dump_range([t |-> "ByIndex", value |-> output[j].ix],
                                     fmt, res)} :
                /\ r.gpc = "returned"
                /\ \E e \in res :
                       /\ e.range = r.picked
                       /\ entry(e.item, fmt.name_display) = output[j].name


-----------------------------------------------------------------------------
(* asm.rs locate_sources; a path is the sequence of its components, "/"
   the root directory *)

Sysroot == <<"/", "sysroot">>

Workspace == <<"/", "ws">>

\* std::env::home_dir()
HomeDir == <<"/", "home">>

\* a component that holds the end of a path with the separators of the
\* other platform
Cursed == "a55d\\library\\core\\option.rs"

\* s.contains("\\") && s.contains("/")
IsCursed(p) == p # <<>> /\ p[1] = "/" /\ \E i \in 1..Len(p) : p[i] = Cursed

\* PathBuf::from(cursed_path.replace("\\", "/"))
Uncursed(p) ==
    Concat([i \in 1..Len(p) |->
               IF p[i] = Cursed THEN <<"a55d", "library", "core", "option.rs">>
               ELSE <<p[i]>>])

\* path.components().skip(n)
Skip(p, n) == SubSeq(p, n + 1, Len(p))

\* Some((source, path))
Found(source, p) == [found |-> TRUE, source |-> source, path |-> p]

\* locate_sources returns
Located(r) == [lpc |-> "done", located |-> r]

\* no_rust_src: a message and std::process::exit(1)
NoRustSrc == [lpc |-> "exit1", located |-> NotFound]

\* panic!("... looks like it can be a cargo registry reference ...")
RegistryPanic == [lpc |-> "panic", located |-> NotFound]

\* the sources of the standard library or of rustc under the sysroot
InSysroot(sysroot, dir, source, p, n, fs) ==
    IF sysroot \o dir \o Skip(p, n) \in fs
    THEN Located(Found(source, sysroot \o dir \o Skip(p, n)))
    ELSE NoRustSrc

\* components().position(|c| c == "cargo" || c == ".cargo"), or -1
CargoPosition(p) ==
    IF \A i \in 1..Len(p) : p[i] \notin {"cargo", ".cargo"} THEN -1
    ELSE MinOf({i \in 1..Len(p) : p[i] \in {"cargo", ".cargo"}}) - 1

\* the arm of the cargo registry: components().nth(ix) is the component at
\* the position that was found
RegistryIx(p) ==
    IF CargoPosition(p) # -1 /\ p[CargoPosition(p) + 1] = "registry"
    THEN CargoPosition(p) ELSE -1

\* locate_sources after the path was found not to exist as it is
Relocate(sysroot, p, fs) ==
    IF HasTag(p, <<"/", "rustc">>) /\ \E i \in 1..Len(p) : p[i] = "compiler"
    THEN InSysroot(sysroot, <<"lib", "rustlib", "rustc-src", "rust">>, "Rustc", p, 3, fs)
    ELSE IF HasTag(p, <<"/", "rustc">>)
    THEN InSysroot(sysroot, <<"lib", "rustlib", "src", "rust">>, "Stdlib", p, 3, fs)
    ELSE IF HasTag(p, <<"/", "private", "tmp">>) /\ \E i \in 1..Len(p) : p[i] = "library"
    THEN InSysroot(sysroot, <<"lib", "rustlib", "src", "rust">>, "Stdlib", p, 5, fs)
    ELSE IF RegistryIx(p) # -1
    THEN IF HomeDir \o <<".cargo">> \o Skip(p, RegistryIx(p)) \in fs
         THEN Located(Found("External", HomeDir \o <<".cargo">> \o Skip(p, RegistryIx(p))))
         ELSE RegistryPanic
    ELSE Located(NotFound)

\* locate_sources
locate_sources(sysroot, workspace, p, fs) ==
    IF p \in fs
    THEN Located(Found(IF HasTag(p, workspace) THEN "Crate" ELSE "External", p))
    ELSE IF (HasTag(p, <<"/", "rustc">>) \/ HasTag(p, <<"/", "private", "tmp">>))
            /\ IsCursed(p)
    THEN Relocate(sysroot, Uncursed(p), fs)
    ELSE Relocate(sysroot, p, fs)

LocateSources ==
    /\ lpc = "ready"
    /\ \E r \in {locate_sources(Sysroot, Workspace, lpath, lfs)} :
           /\ located' = r.located
           /\ lpc' = r.lpc
    /\ UNCHANGED <<lpath, lfs>>
    /\ UNCHANGED <<parseVars, itemVars, ctxVars, dumpVars, pickVars, demVars>>

\* the paths a .file directive records
RecordedPaths ==
    { <<"/", "ws", "src", "main.rs">>,
      <<"/", "opt", "x.rs">>,
      <<"/", "cargo", "registry", "src", "hashbrown", "map.rs">>,
      <<"/", "Users", "runner", ".cargo", "registry", "src", "hashbrown", "map.rs">>,
      <<"/", "cargo", "git", "x.rs">>,
      <<"/", "rustc", "a55d", "library", "core", "option.rs">>,
      <<"/", "rustc", Cursed>>,
      <<"/", "rustc", "a55d", "compiler", "rustc_span", "lib.rs">>,
      <<"/", "private", "tmp", "rust-2023", "rustc-1.68.1-src", "library",
        "core", "option.rs">> }

\* the files there can be
SourceTree ==
    RecordedPaths \cup
    { Sysroot \o <<"lib", "rustlib", "src", "rust", "library", "core", "option.rs">>,
      Sysroot \o <<"lib", "rustlib", "rustc-src", "rust", "compiler", "rustc_span",
                   "lib.rs">>,
      HomeDir \o <<".cargo", "registry", "src", "hashbrown", "map.rs">>,
      HomeDir \o <<".cargo", "cargo", "registry", "src", "hashbrown", "map.rs">>,
      HomeDir \o <<".cargo", ".cargo", "registry", "src", "hashbrown", "map.rs">> }

\* the most files that exist
MaxFs == 2

InitLocate ==
    /\ lpath \in RecordedPaths
    /\ lfs \in {S \in SUBSET SourceTree : Cardinality(S) <= MaxFs}
    /\ located = NotFound /\ lpc = "ready"
    /\ ParseIdle
    /\ ItemsIdle
    /\ CtxIdle
    /\ DumpIdle
    /\ goal = [t |-> "Everything"] /\ picked = NoRange /\ gpc = "idle"
    /\ dtext = <<>> /\ shown = <<>> /\ mpc = "idle"

NextLocate == LocateSources

SpecLocate == InitLocate /\ [][NextLocate]_vars

\* component i of the path is cargo or .cargo and the next one is registry
RegistryAt(p, i) ==
    /\ p[i] \in {"cargo", ".cargo"}
    /\ i < Len(p) /\ p[i + 1] = "registry"

\* the path from the cargo component on, or from the registry component on,
\* under the .cargo directory of the user
Rerooted(p, i) ==
    { HomeDir \o <<".cargo">> \o Skip(p, i - 1),
      HomeDir \o <<".cargo">> \o Skip(p, i) }

\* C30: for a path that does not exist as it is, is not a path of the
\* rustc sources, and has a component cargo or .cargo followed by a
\* component registry, locate_sources returns the path under the .cargo
\* directory of the user as External when that file exists, and does not
\* return that nothing was found
C30_RegistryRerooted ==
    (lpc \notin {"idle", "ready"} /\ lpath \notin lfs
         /\ ~HasTag(lpath, <<"/", "rustc">>)
         /\ ~HasTag(lpath, <<"/", "private", "tmp">>))
        => \A i \in 1..Len(lpath) :
               (RegistryAt(lpath, i) /\ Rerooted(lpath, i) \subseteq lfs)
                   => /\ lpc = "done"
                      /\ located.found /\ located.source = "External"
                      /\ located.path \in Rerooted(lpath, i)

=============================================================================
